---- MODULE Spec2Model ----
(***************************************************************************)
(* Mind-map layout and viewport engine of the study-assistant client.      *)
(* Two React components carry the same engine: MindMapPage (a whole page,  *)
(* view = "page") and MindMapComponent (a card inside DocumentPage,        *)
(* view = "component").  Numbers are exact rationals <<num, den>>; the     *)
(* rounding of IEEE-754 doubles is not part of this model.                 *)
(***************************************************************************)
EXTENDS Integers, Sequences, FiniteSets, TLC

VARIABLES
    view,                \* "page" (MindMapPage) or "component" (MindMapComponent)
    mounted,             \* the mount effects have run (svgRef.current is set)
    hasContext2d,        \* canvas.getContext("2d") yields a context
    surface,             \* the DOM rectangle of the container / svg right now
    mindMap,             \* useState: the snapshot, or NoMap
    expandedNodes,       \* useState: Set<string>
    layout,              \* useState: {nodes, links}
    containerSize,       \* useState: {width, height}
    viewBox,             \* useState: the "x y w h" string, as four numbers
    isDragging,          \* useState
    dragStart,           \* useState: {x, y}
    svgRectRef,          \* useRef: the rectangle captured at pan begin, or NoRect
    isLoading,           \* useState
    error,               \* useState: message or NoError
    isDeleteConfirmOpen, \* useState
    requests,            \* HTTP requests in flight, in dispatch order
    sent,                \* number of requests dispatched so far
    viewOps,             \* number of zoom, pan-move and resize events so far
    observed,            \* the size the ResizeObserver reported last, if it has reported
    chat,                \* ChatView of the collection page: its useState values and requests
    lastEvent            \* the handler that ran last, with its inputs

vars == <<view, mounted, hasContext2d, surface, mindMap, expandedNodes, layout,
          containerSize, viewBox, isDragging, dragStart, svgRectRef, isLoading,
          error, isDeleteConfirmOpen, requests, sent, viewOps, observed, chat, lastEvent>>

\* the state of the mind-map views, which ChatView does not touch
mindMapVars == <<view, mounted, hasContext2d, surface, mindMap, expandedNodes, layout,
                 containerSize, viewBox, isDragging, dragStart, svgRectRef, isLoading,
                 error, isDeleteConfirmOpen, requests, sent, viewOps, observed>>

-----------------------------------------------------------------------------
(* Program constants *)
NODE_HEIGHT == 50
HORIZONTAL_SPACING == 60
VERTICAL_SPACING == 20
NODE_HORIZONTAL_PADDING == 40
MIN_NODE_WIDTH == 120
CHEVRON_OFFSET == 16
MIN_ZOOM_WIDTH == 200
MAX_ZOOM_WIDTH == 8000
ROOT_MARGIN == 50
FALLBACK_CHAR_WIDTH == 8

(* Bounds of the model *)
MaxNodes == 4        \* nodes in a topic tree drawn as layout input
MaxIdNodes == 3      \* nodes in a topic tree drawn as addIds input
MaxViewOps == 3      \* zoom, pan-move and resize events in one behaviour
MaxRequests == 3     \* requests dispatched in one behaviour
MaxChatRequests == 3 \* chat and clear requests dispatched in one behaviour
MaxSessionOps == 1   \* zoom, pan-move and resize events in a session with commands
FontAdvance == 9     \* pixels per character reported by the canvas font metrics

-----------------------------------------------------------------------------
(* Exact rational arithmetic: a number is <<n, d>> with d > 0, gcd(n, d) = 1 *)
Abs(i) == IF i < 0 THEN -i ELSE i

RECURSIVE GCD(_, _)
GCD(a, b) == IF b = 0 THEN a ELSE GCD(b, a % b)

Norm(n, d) ==
    LET s == IF d < 0 THEN -1 ELSE 1
        g == GCD(Abs(n), Abs(d))
    IN  <<(s * n) \div g, (s * d) \div g>>

R(i) == <<i, 1>>
Num(q) == q[1]
Den(q) == q[2]
RAdd(p, q) ==
    LET g == GCD(p[2], q[2])
        l == (p[2] \div g) * q[2]
    IN  Norm(p[1] * (l \div p[2]) + q[1] * (l \div q[2]), l)
RNeg(p) == <<-p[1], p[2]>>
RSub(p, q) == RAdd(p, RNeg(q))
RMul(p, q) ==
    LET a == Norm(p[1], q[2])
        b == Norm(q[1], p[2])
    IN  Norm(a[1] * b[1], a[2] * b[2])
RDiv(p, q) == RMul(p, Norm(q[2], q[1]))
RLt(p, q) == Num(RSub(p, q)) < 0
RLe(p, q) == Num(RSub(p, q)) <= 0
RMaxOf(p, q) == IF RLt(p, q) THEN q ELSE p
RMinOf(p, q) == IF RLt(q, p) THEN q ELSE p
RAbs(p) == <<Abs(p[1]), p[2]>>

-----------------------------------------------------------------------------
(* Strings are sequences of one-character strings *)
Letters == {"a", "b", "c", "d", "e", "f", "g", "h", "i", "j", "k", "l", "m",
            "n", "o", "p", "q", "r", "s", "t", "u", "v", "w", "x", "y", "z",
            "A", "B", "C", "D", "E", "F", "G", "H", "I", "J", "K", "L", "M",
            "N", "O", "P", "Q", "R", "S", "T", "U", "V", "W", "X", "Y", "Z"}
Digits == <<"0", "1", "2", "3", "4", "5", "6", "7", "8", "9">>
DigitChars == {Digits[i] : i \in 1..10}

\* String(i) for a non-negative integer, as template literals print it
RECURSIVE ToDecimal(_)
ToDecimal(i) ==
    IF i < 10 THEN <<Digits[i + 1]>>
    ELSE ToDecimal(i \div 10) \o <<Digits[(i % 10) + 1]>>

\* topic.replace(/[^a-zA-Z0-9]/g, '-')
lettersOnly(topic) ==
    [k \in 1..Len(topic) |-> IF topic[k] \in Letters THEN topic[k] ELSE "-"]
sanitize(topic) ==
    [k \in 1..Len(topic) |->
        IF topic[k] \in Letters \cup DigitChars THEN topic[k] ELSE "-"]

-----------------------------------------------------------------------------
(* Identifier assignment *)
ROOT_PREFIX == <<"r", "o", "o", "t">>

\* `${prefix}-${node.topic.replace(...)}`
idOf(prefix, topic) == prefix \o <<"-">> \o sanitize(topic)

\* `${id}-${i}`: the prefix handed to the i-th child (i counts from 0)
childPrefixNoIndex(id, i) == id
childPrefix(id, i) == id \o <<"-">> \o ToDecimal(i)

RECURSIVE addIds(_, _)
addIds(node, prefix) ==
    LET id == idOf(prefix, node.topic)
    IN  [topic    |-> node.topic,
         id       |-> id,
         children |-> [i \in 1..Len(node.children) |->
                          addIds(node.children[i], childPrefix(id, i - 1))]]

-----------------------------------------------------------------------------
(* Text measurement *)
getTextWidth(text) ==
    IF hasContext2d THEN R(Len(text) * FontAdvance)
    ELSE R(Len(text) * FALLBACK_CHAR_WIDTH)

-----------------------------------------------------------------------------
(* Tree layout engine *)
NoParent == <<>>

nodeWidthOf(topic) ==
    RMaxOf(R(MIN_NODE_WIDTH), RAdd(getTextWidth(topic), R(NODE_HORIZONTAL_PADDING)))

\* expandedNodes.has(nodeData.id)
expandedIfAny(expanded, id) == expanded # {}
isExpandedIn(expanded, id) == id \in expanded

\* the children buildHierarchy descends into
alwaysDescend(expanded, nodeData) == nodeData.children
childrenToBuild(expanded, nodeData) ==
    IF isExpandedIn(expanded, nodeData.id) THEN nodeData.children ELSE <<>>

RECURSIVE SumY(_)
SumY(children) ==
    IF children = <<>> THEN R(0)
    ELSE RAdd(SumY(SubSeq(children, 1, Len(children) - 1)), children[Len(children)].y)

\* childrenYSum / layoutNode.children.length
meanY(children) == RDiv(SumY(children), R(Len(children)))

\* yCounter += NODE_HEIGHT + VERTICAL_SPACING
slotWithoutSpacing(yCounter) == yCounter + NODE_HEIGHT
nextSlot(yCounter) == yCounter + NODE_HEIGHT + VERTICAL_SPACING

\* buildHierarchy returns the layout node and the value of yCounter after it
RECURSIVE buildHierarchy(_, _, _, _, _)
RECURSIVE buildChildren(_, _, _, _, _)
buildChildren(kids, depth, parentId, yCounter, expanded) ==
    IF kids = <<>> THEN [nodes |-> <<>>, yCounter |-> yCounter]
    ELSE LET first == buildHierarchy(kids[1], depth, parentId, yCounter, expanded)
             rest  == buildChildren(Tail(kids), depth, parentId, first.yCounter, expanded)
         IN  [nodes |-> <<first.node>> \o rest.nodes, yCounter |-> rest.yCounter]

buildHierarchy(nodeData, depth, parent, yCounter, expanded) ==
    LET built == buildChildren(childrenToBuild(expanded, nodeData), depth + 1,
                               nodeData.id, yCounter, expanded)
        base  == [id |-> nodeData.id, name |-> nodeData.topic, x |-> R(0), y |-> R(0),
                  depth |-> depth, width |-> nodeWidthOf(nodeData.topic),
                  height |-> NODE_HEIGHT, parent |-> parent,
                  sourceChildren |-> Len(nodeData.children),
                  children |-> built.nodes]
    IN  IF Len(built.nodes) > 0
        THEN [node |-> [base EXCEPT !.y = meanY(built.nodes)],
              yCounter |-> built.yCounter]
        ELSE [node |-> [base EXCEPT !.y = R(yCounter)],
              yCounter |-> nextSlot(yCounter)]

\* node.x for a node with a parent, and for the root
childXNoGap(parentX, parentWidth, width) ==
    RAdd(parentX, RAdd(RDiv(parentWidth, R(2)), RDiv(width, R(2))))
childX(parentX, parentWidth, width) ==
    RAdd(parentX, RAdd(RAdd(RDiv(parentWidth, R(2)), R(HORIZONTAL_SPACING)),
                       RDiv(width, R(2))))
rootX(containerWidth, width) ==
    RAdd(RAdd(RDiv(RNeg(containerWidth), R(2)), RDiv(width, R(2))), R(ROOT_MARGIN))

\* node.y += yOffset
shiftY(y, yOffset) == RAdd(y, yOffset)

\* the yOffset positionNodes hands to a node's children
rootOnlyOffset(yOffset) == R(0)
childOffset(yOffset) == yOffset

\* the link pushed for a positioned node with a parent
linkBetweenCentres(parent, node) ==
    [id |-> parent.id \o <<"-">> \o node.id, source |-> parent.id, target |-> node.id,
     sx |-> parent.x, sy |-> parent.y, tx |-> node.x, ty |-> node.y,
     c1x |-> RAdd(parent.x, RDiv(R(HORIZONTAL_SPACING * 2), R(3))),
     c2x |-> RSub(node.x, RDiv(R(HORIZONTAL_SPACING * 2), R(3)))]
linkOf(parent, node) ==
    LET sx == RAdd(RAdd(parent.x, RDiv(parent.width, R(2))), R(CHEVRON_OFFSET))
        sy == parent.y
        tx == RSub(node.x, RDiv(node.width, R(2)))
        ty == node.y
    IN  [id |-> parent.id \o <<"-">> \o node.id, source |-> parent.id, target |-> node.id,
         sx |-> sx, sy |-> sy, tx |-> tx, ty |-> ty,
         c1x |-> RAdd(sx, RDiv(R(HORIZONTAL_SPACING * 2), R(3))),
         c2x |-> RSub(tx, RDiv(R(HORIZONTAL_SPACING * 2), R(3)))]

\* a layout node as the nodes array holds it (children and parent by id)
flat(node) ==
    [id |-> node.id, name |-> node.name, x |-> node.x, y |-> node.y,
     depth |-> node.depth, width |-> node.width, height |-> node.height,
     parent |-> node.parent, sourceChildren |-> node.sourceChildren,
     children |-> [i \in 1..Len(node.children) |-> node.children[i].id]]

\* positionNodes returns what it pushed onto nodes and links, in push order
RECURSIVE positionNodes(_, _, _, _, _, _)
RECURSIVE positionChildren(_, _, _, _, _, _)
positionChildren(kids, yOffset, parentX, parentWidth, parent, containerWidth) ==
    IF kids = <<>> THEN [nodes |-> <<>>, links |-> <<>>]
    ELSE LET first == positionNodes(kids[1], yOffset, parentX, parentWidth, parent,
                                    containerWidth)
             rest  == positionChildren(Tail(kids), yOffset, parentX, parentWidth, parent,
                                       containerWidth)
         IN  [nodes |-> first.nodes \o rest.nodes, links |-> first.links \o rest.links]

positionNodes(node, yOffset, parentX, parentWidth, parent, containerWidth) ==
    LET x    == IF node.parent # NoParent THEN childX(parentX, parentWidth, node.width)
                ELSE rootX(containerWidth, node.width)
        me   == flat([node EXCEPT !.x = x, !.y = shiftY(node.y, yOffset)])
        link == IF node.parent # NoParent THEN <<linkOf(parent, me)>> ELSE <<>>
        sub  == positionChildren(node.children, childOffset(yOffset), me.x, me.width, me,
                                 containerWidth)
    IN  [nodes |-> <<me>> \o sub.nodes, links |-> link \o sub.links]

\* const yCorrection = -hierarchy.y
keepSign(hierarchy) == hierarchy.y
yCorrectionOf(hierarchy) == RNeg(hierarchy.y)

calculateLayout(rootNode, containerWidth, expanded) ==
    LET hierarchy == buildHierarchy(rootNode, 0, NoParent, 0, expanded).node
    IN  LET p == positionNodes(hierarchy, yCorrectionOf(hierarchy), R(0), R(0), NoParent,
                               containerWidth)
        IN  [nodes |-> p.nodes, links |-> p.links]

EmptyLayout == [nodes |-> <<>>, links |-> <<>>]

-----------------------------------------------------------------------------
(* Inputs: topic trees, snapshots, surfaces, pointer positions *)

\* ordered forests with m nodes; a tree shape is the forest of its children
RECURSIVE Forests(_)
Forests(m) ==
    IF m = 0 THEN {<<>>}
    ELSE UNION {{<<t>> \o f : t \in Forests(k - 1), f \in Forests(m - k)} : k \in 1..m}

\* the k-th node in depth-first order takes labels[k]
RECURSIVE LabelTree(_, _, _)
RECURSIVE LabelForest(_, _, _)
LabelForest(forest, labels, k) ==
    IF forest = <<>> THEN [trees |-> <<>>, next |-> k]
    ELSE LET a == LabelTree(forest[1], labels, k)
             r == LabelForest(Tail(forest), labels, a.next)
         IN  [trees |-> <<a.tree>> \o r.trees, next |-> r.next]
LabelTree(shape, labels, k) ==
    LET kids == LabelForest(shape, labels, k + 1)
    IN  [tree |-> [topic |-> labels[((k - 1) % Len(labels)) + 1], children |-> kids.trees],
         next |-> kids.next]

MixedLabels ==
    << <<"N","e","u","r","a","l"," ","n","e","t","w","o","r","k","s">>,
       <<"O","v","e","r","v","i","e","w">>,
       <<"O","v","e","r","v","i","e","w">>,
       <<"D","e","e","p"," ","l","e","a","r","n","i","n","g">>,
       <<"B">>,
       <<"G","r","a","d","i","e","n","t"," ","d","e","s","c","e","n","t">>,
       <<"C">> >>


IdTopics == { <<"a">>, <<"a", " ", "b">>, <<"a", "-", "b">>, <<"0", "-", "a">> }
IdTrees ==
    UNION {{LabelTree(shape, labels, 1).tree :
               shape \in Forests(n - 1), labels \in [1..n -> IdTopics]} :
           n \in 1..MaxIdNodes}

\* the tree A[B, C[D]]
TreeABCD ==
    [topic |-> <<"A">>,
     children |-> << [topic |-> <<"B">>, children |-> <<>>],
                     [topic |-> <<"C">>,
                      children |-> << [topic |-> <<"D">>, children |-> <<>>] >>] >>]
\* a second tree for a regenerated snapshot
TreeXY ==
    [topic |-> <<"X">>, children |-> << [topic |-> <<"Y">>, children |-> <<>>] >>]

\* an optional value is <<>> (null) or <<value>>
NoMap == <<>>
NoRect == <<>>
NoError == "null"

\* every tree shape of up to MaxNodes nodes, and the tree of the end-to-end scenario
LayoutTrees ==
    {LabelTree(shape, MixedLabels, 1).tree :
        shape \in UNION {Forests(n - 1) : n \in 1..MaxNodes}} \cup {TreeABCD}

Snapshot(tree) == [roots |-> <<tree>>]
NoRootsSnapshot == [roots |-> <<>>]
LifecycleSnapshots == {Snapshot(TreeABCD), Snapshot(TreeXY), NoRootsSnapshot}

Rect(l, t, w, h) == [left |-> R(l), top |-> R(t), width |-> R(w), height |-> R(h)]
Surfaces == {Rect(50, 50, 1000, 500), Rect(0, 0, 160, 320),
             Rect(0, 0, 240, 120), Rect(0, 0, 7500, 1000)}
Points == {<<R(100), R(100)>>, <<R(150), R(100)>>}
PointIn(rect, p) ==
    /\ RLe(rect.left, p[1]) /\ RLe(p[1], RAdd(rect.left, rect.width))
    /\ RLe(rect.top, p[2])  /\ RLe(p[2], RAdd(rect.top, rect.height))

-----------------------------------------------------------------------------
(* State after construction: the useState / useRef initial values *)
\* ChatView as constructed (useState initial values), before its effects run
ChatInit ==
    [mounted |-> FALSE, messages |-> <<>>, input |-> <<>>, isSending |-> FALSE,
     isRefreshConfirmOpen |-> FALSE, isClearingChat |-> FALSE, isHistoryEmpty |-> FALSE,
     requests |-> <<>>, sent |-> 0]

InitWith(views, contexts, surfaces) ==
    /\ view \in views
    /\ chat = ChatInit
    /\ mounted = FALSE
    /\ hasContext2d \in contexts
    /\ surface \in surfaces
    /\ mindMap = NoMap
    /\ expandedNodes = {}
    /\ layout = EmptyLayout
    /\ containerSize = [width |-> R(1000), height |-> R(1000)]
    /\ viewBox = [x |-> R(0), y |-> R(0), w |-> R(1000), h |-> R(1000)]
    /\ isDragging = FALSE
    /\ dragStart = [x |-> R(0), y |-> R(0)]
    /\ svgRectRef = NoRect
    /\ isLoading = TRUE
    /\ error = NoError
    /\ isDeleteConfirmOpen = FALSE
    /\ requests = <<>>
    /\ sent = 0
    /\ viewOps = 0
    /\ observed = NoRect
    /\ lastEvent = [op |-> "construct"]

\* either view, constructed in a 1000 x 500 container without a 2d canvas context
Init == InitWith({"page", "component"}, {FALSE}, {Rect(50, 50, 1000, 500)})

-----------------------------------------------------------------------------
(* Derived state *)

\* mindMap?.data.roots[0], with ids
hasFirstRoot(map) == map # NoMap /\ Len(map[1].roots) > 0
rootWithId(map) == addIds(map[1].roots[1], ROOT_PREFIX)

\* the layout effect: runs after every change of mindMap, expandedNodes, containerSize
layoutEffect(map, expanded, size) ==
    IF hasFirstRoot(map) THEN calculateLayout(rootWithId(map), size.width, expanded)
    ELSE EmptyLayout

\* setInitialExpandedState
keepExpandedState(mapData, expanded) == expanded
initialExpandedState(mapData, expanded) ==
    IF hasFirstRoot(mapData) THEN {rootWithId(mapData).id} ELSE {}

\* setViewBox(`${-width / 2} ${-height / 2} ${width} ${height}`)
resetViewBox(size) ==
    [x |-> RDiv(RNeg(size.width), R(2)), y |-> RDiv(RNeg(size.height), R(2)),
     w |-> size.width, h |-> size.height]

sizeOf(rect) == [width |-> rect.width, height |-> rect.height]

-----------------------------------------------------------------------------
(* Mount: the three mount effects, in source order, then the layout effect *)
\* a request in flight; had is the snapshot on show when the request was dispatched
FetchRequest(chained) == [kind |-> "fetch", chained |-> chained, had |-> mindMap]
RegenerateRequest == [kind |-> "regenerate", chained |-> FALSE, had |-> mindMap]
DeleteRequest == [kind |-> "delete", chained |-> FALSE, had |-> mindMap]

Mount ==
    /\ ~mounted
    /\ mounted' = TRUE
    \* fetchExistingMindMap() / fetchMindMap()
    /\ isLoading' = TRUE
    /\ error' = NoError
    /\ requests' = Append(requests, FetchRequest(FALSE))
    /\ sent' = sent + 1
    \* page: getBoundingClientRect of the container; component: the observer is
    \* constructed and observes the container, its first report is still to come
    /\ containerSize' = IF view = "page" THEN sizeOf(surface) ELSE containerSize
    /\ viewBox' = IF view = "page" THEN resetViewBox(sizeOf(surface)) ELSE viewBox
    /\ layout' = layoutEffect(mindMap, expandedNodes, containerSize')
    /\ lastEvent' = [op |-> "mount"]
    /\ UNCHANGED <<chat, observed, view, hasContext2d, surface, mindMap, expandedNodes, isDragging,
                   dragStart, svgRectRef, isDeleteConfirmOpen, viewOps>>

-----------------------------------------------------------------------------
(* Expansion state *)
addOnly(prev, nodeId) == prev \cup {nodeId}
toggled(prev, nodeId) ==
    IF nodeId \in prev THEN prev \ {nodeId} ELSE prev \cup {nodeId}

\* where the node's group is drawn: translate(node.x, node.y)
DrawnAt(lay, id) ==
    {<<lay.nodes[i].x, lay.nodes[i].y>> : i \in {j \in 1..Len(lay.nodes) : lay.nodes[j].id = id}}

\* toggleNode as run for one DOM event; was: the node's membership before the gesture,
\* at: where the node was drawn when the event arrived
toggleBy(event, nodeId, was) ==
    /\ mounted
    /\ expandedNodes' = toggled(expandedNodes, nodeId)
    /\ layout' = layoutEffect(mindMap, expandedNodes', containerSize)
    /\ lastEvent' = [op |-> "toggleNode", id |-> nodeId, event |-> event, was |-> was,
                     at |-> DrawnAt(layout, nodeId)]
    /\ UNCHANGED <<chat, observed, view, mounted, hasContext2d, surface, mindMap, containerSize, viewBox,
                   isDragging, dragStart, svgRectRef, isLoading, error,
                   isDeleteConfirmOpen, requests, sent, viewOps>>

toggleNode(nodeId) == toggleBy("call", nodeId, nodeId \in expandedNodes)

\* the nodes that render a chevron: hasChildren in CustomNode
ChevronIds == {layout.nodes[i].id : i \in {j \in 1..Len(layout.nodes) :
                                              layout.nodes[j].sourceChildren > 0}}

RECURSIVE IdsOf(_)
IdsOf(node) ==
    {node.id} \cup UNION {IdsOf(node.children[i]) : i \in 1..Len(node.children)}
RECURSIVE CountOf(_)
RECURSIVE CountForest(_)
CountForest(kids) == IF kids = <<>> THEN 0 ELSE CountOf(kids[1]) + CountForest(Tail(kids))
CountOf(node) == 1 + CountForest(node.children)

STALE_ID == <<"r", "o", "o", "t", "-", "g", "o", "n", "e">>
TreeIds == IF hasFirstRoot(mindMap) THEN IdsOf(rootWithId(mindMap)) ELSE {}

-----------------------------------------------------------------------------
(* Responses to GET: the rest of fetchExistingMindMap / regenerateMindMap / fetchMindMap *)
LOAD_FAILED == "Failed to load mind map."
REGENERATE_FAILED == "Failed to regenerate mind map."
DELETE_FAILED == "Failed to delete mind map."
INVALID_TYPE == "Invalid data type received."
UNKNOWN_ERROR == "An unknown error occurred."
SERVER_DETAIL == "detail of the server"
JSON_ERROR == "Unexpected end of JSON input"
FETCH_ERROR == "Failed to fetch"

\* what a request can come to: the status of the response and its body (a body that
\* is not JSON, a body with or without a detail), or a rejection of fetch
GetOutcomes ==
    {"ok", "wrongType", "okBadJson", "notFound", "notFoundDetail", "failed",
     "failedDetail", "failedBadJson", "rejected", "rejectedNonError"}
DeleteOutcomes ==
    {"ok", "failed", "failedDetail", "failedBadJson", "rejected", "rejectedNonError"}
StatusOf(outcome) ==
    CASE outcome \in {"ok", "wrongType", "okBadJson", "noContent"} -> "ok"
      [] outcome \in {"notFound", "notFoundDetail"} -> "notFound"
      [] outcome \in {"failed", "failedDetail", "failedBadJson"} -> "failed"
      [] OTHER -> "rejected"

\* a thrown value: an Error with its message, or something that is not an Error
ErrorOf(message) == [isError |-> TRUE, message |-> message]
NonError == [isError |-> FALSE, message |-> ""]
\* what fetch or response.json() throws by themselves
ThrownByFetch(outcome) ==
    CASE outcome = "rejected" -> ErrorOf(FETCH_ERROR)
      [] outcome = "rejectedNonError" -> NonError
      [] OTHER -> ErrorOf(JSON_ERROR)
\* throw new Error((await response.json()).detail || fallback)
ThrownByStatus(outcome, fallback) ==
    CASE outcome \in {"failedDetail", "notFoundDetail"} -> ErrorOf(SERVER_DETAIL)
      [] outcome \in {"failed", "notFound"} -> ErrorOf(fallback)
      [] OTHER -> ThrownByFetch(outcome)
\* err instanceof Error ? err.message : 'An unknown error occurred.'
ErrorText(thrown) == IF thrown.isError THEN thrown.message ELSE UNKNOWN_ERROR

RemoveAt(seq, i) == SubSeq(seq, 1, i - 1) \o SubSeq(seq, i + 1, Len(seq))

\* the outcome as the handler's branches see it
GetBranch(req, outcome) ==
    IF StatusOf(outcome) = "rejected" \/ outcome = "okBadJson" THEN "throw"
    ELSE IF view = "page" /\ req.kind = "regenerate"
    THEN (IF StatusOf(outcome) = "ok" THEN "data" ELSE "throw")
    ELSE IF StatusOf(outcome) = "notFound" THEN "notFound"
    ELSE IF StatusOf(outcome) = "failed" THEN "throw"
    ELSE IF view = "component" /\ outcome = "wrongType" THEN "throw"
    ELSE "data"

\* what the catch clause receives, and the message it sets
GetThrown(req, outcome) ==
    IF view = "component" /\ outcome = "wrongType" THEN ErrorOf(INVALID_TYPE)
    ELSE IF view = "page" /\ req.kind = "regenerate"
    THEN ThrownByStatus(outcome, REGENERATE_FAILED)
    ELSE ThrownByStatus(outcome, LOAD_FAILED)
GetErrorMessage(req, outcome) == ErrorText(GetThrown(req, outcome))

\* finally { setIsLoading(false); }, whatever else is still in flight
busyWhileOutstanding(pending) == pending # <<>>
loadingAfterResponse(pending) == FALSE

GetResponse(i, outcome, data) ==
    /\ i \in 1..Len(requests)
    /\ requests[i].kind \in {"fetch", "regenerate"}
    /\ LET req == requests[i]
           branch == GetBranch(req, outcome)
       IN  /\ mindMap' = CASE branch = "data" -> <<data>>
                           [] branch = "notFound" -> NoMap
                           [] OTHER -> mindMap
           /\ expandedNodes' =
                  CASE branch = "data" -> initialExpandedState(<<data>>, expandedNodes)
                    [] branch = "notFound" /\ view = "page" -> {}
                    [] OTHER -> expandedNodes
           /\ error' = IF branch = "throw" THEN GetErrorMessage(req, outcome) ELSE error
           \* finally (and handleDelete's finally when it awaited this fetch)
           /\ isLoading' = loadingAfterResponse(RemoveAt(requests, i))
           /\ isDeleteConfirmOpen' = IF req.chained THEN FALSE ELSE isDeleteConfirmOpen
           /\ lastEvent' = [op |-> "getResponse", kind |-> req.kind, branch |-> branch,
                            expandedBefore |-> Cardinality(expandedNodes),
                            outcome |-> outcome,
                            chained |-> req.chained, index |-> i, data |-> data]
    /\ requests' = RemoveAt(requests, i)
    /\ layout' = layoutEffect(mindMap', expandedNodes', containerSize)
    /\ UNCHANGED <<chat, observed, view, mounted, hasContext2d, surface, containerSize, viewBox, isDragging,
                   dragStart, svgRectRef, sent, viewOps>>

-----------------------------------------------------------------------------
(* Commands: regenerate, delete, and the fetch effect running again *)

\* the fetch effect re-runs when collectionId / apiBaseUrl changes
refetch ==
    /\ mounted
    /\ sent < MaxRequests
    /\ isLoading' = TRUE
    /\ error' = NoError
    /\ requests' = Append(requests, FetchRequest(FALSE))
    /\ sent' = sent + 1
    /\ lastEvent' = [op |-> "refetch"]
    /\ UNCHANGED <<chat, observed, view, mounted, hasContext2d, surface, mindMap, expandedNodes, layout,
                   containerSize, viewBox, isDragging, dragStart, svgRectRef,
                   isDeleteConfirmOpen, viewOps>>

\* disabled={isLoading} on the Regenerate / Generate buttons
neverDisabled == FALSE
regenerateDisabled == isLoading

\* disabled={isLoading || !mindMap} on the Delete button
deleteDisabled == isLoading \/ mindMap = NoMap

\* the Regenerate / Generate buttons:
\* regenerateMindMap() in MindMapPage, fetchMindMap(true) in MindMapComponent
regenerateMindMap ==
    /\ mounted
    /\ ~regenerateDisabled
    /\ sent < MaxRequests
    /\ isLoading' = TRUE
    /\ error' = NoError
    /\ mindMap' = IF view = "page" THEN NoMap ELSE mindMap
    /\ layout' = layoutEffect(mindMap', expandedNodes, containerSize)
    /\ requests' = Append(requests, RegenerateRequest)
    /\ sent' = sent + 1
    /\ lastEvent' = [op |-> "regenerate"]
    /\ UNCHANGED <<chat, observed, view, mounted, hasContext2d, surface, expandedNodes, containerSize,
                   viewBox, isDragging, dragStart, svgRectRef, isDeleteConfirmOpen,
                   viewOps>>

\* the Delete button (disabled while isLoading or without a map)
openDeleteConfirm ==
    /\ mounted
    /\ ~deleteDisabled
    /\ ~isDeleteConfirmOpen
    /\ isDeleteConfirmOpen' = TRUE
    /\ lastEvent' = [op |-> "openDeleteConfirm"]
    /\ UNCHANGED <<chat, observed, view, mounted, hasContext2d, surface, mindMap, expandedNodes, layout,
                   containerSize, viewBox, isDragging, dragStart, svgRectRef, isLoading,
                   error, requests, sent, viewOps>>

\* onOpenChange(false)
closeDeleteConfirm ==
    /\ isDeleteConfirmOpen
    /\ isDeleteConfirmOpen' = FALSE
    /\ lastEvent' = [op |-> "closeDeleteConfirm"]
    /\ UNCHANGED <<chat, observed, view, mounted, hasContext2d, surface, mindMap, expandedNodes, layout,
                   containerSize, viewBox, isDragging, dragStart, svgRectRef, isLoading,
                   error, requests, sent, viewOps>>

\* the dialog's Delete action (disabled while isLoading), up to the first await
handleDelete ==
    /\ isDeleteConfirmOpen
    /\ ~isLoading
    /\ sent < MaxRequests
    /\ IF mindMap = NoMap
       THEN /\ lastEvent' = [op |-> "handleDelete", sent |-> FALSE]
            /\ UNCHANGED <<isLoading, error, requests, sent>>
       ELSE /\ isLoading' = TRUE
            /\ error' = IF view = "page" THEN NoError ELSE error
            /\ requests' = Append(requests, DeleteRequest)
            /\ sent' = sent + 1
            /\ lastEvent' = [op |-> "handleDelete", sent |-> TRUE]
    /\ UNCHANGED <<chat, observed, view, mounted, hasContext2d, surface, mindMap, expandedNodes, layout,
                   containerSize, viewBox, isDragging, dragStart, svgRectRef,
                   isDeleteConfirmOpen, viewOps>>

\* handleDelete's finally after its catch: setIsLoading(false)
stillLoading == TRUE
loadingAfterDeleteFailure == FALSE

\* the rest of handleDelete once DELETE has answered
DeleteResponse(i, outcome) ==
    /\ i \in 1..Len(requests)
    /\ requests[i].kind = "delete"
    /\ IF outcome # "ok"
       THEN /\ error' = ErrorText(ThrownByStatus(outcome, DELETE_FAILED))
            /\ isLoading' = loadingAfterDeleteFailure
            /\ isDeleteConfirmOpen' = FALSE
            /\ requests' = RemoveAt(requests, i)
            /\ UNCHANGED <<mindMap, layout, sent>>
       ELSE IF view = "page"
       THEN \* await fetchExistingMindMap(), up to its await
            /\ isLoading' = TRUE
            /\ error' = NoError
            /\ requests' = Append(RemoveAt(requests, i), FetchRequest(TRUE))
            /\ sent' = sent + 1
            /\ UNCHANGED <<mindMap, layout, isDeleteConfirmOpen>>
       ELSE /\ mindMap' = NoMap
            /\ layout' = layoutEffect(mindMap', expandedNodes, containerSize)
            /\ isLoading' = FALSE
            /\ isDeleteConfirmOpen' = FALSE
            /\ requests' = RemoveAt(requests, i)
            /\ UNCHANGED <<error, sent>>
    /\ lastEvent' = [op |-> "deleteResponse", outcome |-> outcome]
    /\ UNCHANGED <<chat, observed, view, mounted, hasContext2d, surface, expandedNodes, containerSize,
                   viewBox, isDragging, dragStart, svgRectRef, viewOps>>

-----------------------------------------------------------------------------
(* Viewport controller *)
WHEEL_FACTOR == <<11, 10>>
BUTTON_FACTOR == <<5, 4>>

\* e.deltaY > 0 ? scaleFactor : 1 / scaleFactor;  direction === 'out' ? ... : ...
scaleOf(factor, direction) == IF direction = "out" THEN factor ELSE RDiv(R(1), factor)

\* if (newW < MIN_ZOOM_WIDTH) newW = MIN_ZOOM_WIDTH; if (newW > MAX_ZOOM_WIDTH) newW = ...
clampUpperOnly(newW) == RMinOf(newW, R(MAX_ZOOM_WIDTH))
clampWidth(newW) ==
    IF RLt(newW, R(MIN_ZOOM_WIDTH)) THEN R(MIN_ZOOM_WIDTH)
    ELSE IF RLt(R(MAX_ZOOM_WIDTH), newW) THEN R(MAX_ZOOM_WIDTH)
    ELSE newW

\* handleButtonZoom: the new rectangle, scaled about its own centre
buttonZoomFromCorner(vb, scale) ==
    LET newW == clampWidth(RMul(vb.w, scale))
    IN  [x |-> vb.x, y |-> vb.y, w |-> newW, h |-> RMul(vb.h, RDiv(newW, vb.w))]
buttonZoom(vb, scale) ==
    LET newW == clampWidth(RMul(vb.w, scale))
        newH == RMul(vb.h, RDiv(newW, vb.w))
    IN  [x |-> RAdd(vb.x, RDiv(RSub(vb.w, newW), R(2))),
         y |-> RAdd(vb.y, RDiv(RSub(vb.h, newH), R(2))),
         w |-> newW, h |-> newH]

\* handleWheel: the new rectangle, scaled about the scene point under the pointer
wheelZoomAboutCentre(vb, scale, mouseX, mouseY, svgRect) == buttonZoom(vb, scale)
wheelZoom(vb, scale, mouseX, mouseY, svgRect) ==
    LET newW == clampWidth(RMul(vb.w, scale))
        newH == RMul(vb.h, RDiv(newW, vb.w))
        svgX == RAdd(vb.x, RMul(RDiv(mouseX, svgRect.width), vb.w))
        svgY == RAdd(vb.y, RMul(RDiv(mouseY, svgRect.height), vb.h))
    IN  [x |-> RSub(svgX, RMul(RDiv(mouseX, svgRect.width), newW)),
         y |-> RSub(svgY, RMul(RDiv(mouseY, svgRect.height), newH)),
         w |-> newW, h |-> newH]

\* handleMouseMove / handleTouchMove / handleInteractionMove: the translated rectangle
pannedWithPointer(vb, start, clientX, clientY, svgRect) ==
    [x |-> RAdd(vb.x, RMul(RSub(clientX, start.x), RDiv(vb.w, svgRect.width))),
     y |-> RAdd(vb.y, RMul(RSub(clientY, start.y), RDiv(vb.h, svgRect.height))),
     w |-> vb.w, h |-> vb.h]
panned(vb, start, clientX, clientY, svgRect) ==
    LET dx == RMul(RSub(clientX, start.x), RDiv(vb.w, svgRect.width))
        dy == RMul(RSub(clientY, start.y), RDiv(vb.h, svgRect.height))
    IN  [x |-> RSub(vb.x, dx), y |-> RSub(vb.y, dy), w |-> vb.w, h |-> vb.h]

Directions == {"in", "out"}

handleWheel(direction, clientX, clientY) ==
    /\ mounted
    /\ viewOps < MaxViewOps
    /\ PointIn(surface, <<clientX, clientY>>)
    /\ viewBox' = wheelZoom(viewBox, scaleOf(WHEEL_FACTOR, direction),
                            RSub(clientX, surface.left), RSub(clientY, surface.top),
                            surface)
    /\ viewOps' = viewOps + 1
    /\ lastEvent' = [op |-> "wheel", dir |-> direction]
    /\ UNCHANGED <<chat, observed, view, mounted, hasContext2d, surface, mindMap, expandedNodes, layout,
                   containerSize, isDragging, dragStart, svgRectRef, isLoading, error,
                   isDeleteConfirmOpen, requests, sent>>

handleButtonZoom(direction) ==
    /\ mounted
    /\ viewOps < MaxViewOps
    /\ viewBox' = buttonZoom(viewBox, scaleOf(BUTTON_FACTOR, direction))
    /\ viewOps' = viewOps + 1
    /\ lastEvent' = [op |-> "buttonZoom", dir |-> direction]
    /\ UNCHANGED <<chat, observed, view, mounted, hasContext2d, surface, mindMap, expandedNodes, layout,
                   containerSize, isDragging, dragStart, svgRectRef, isLoading, error,
                   isDeleteConfirmOpen, requests, sent>>

\* handleMouseDown / handleInteractionStart
\* from, origin: the pixel and the viewBox origin the run of pan events started with
beginPan(op, touches, clientX, clientY) ==
    /\ isDragging' = TRUE
    /\ dragStart' = [x |-> clientX, y |-> clientY]
    /\ svgRectRef' = <<surface>>
    /\ lastEvent' = [op |-> op, touches |-> touches, acted |-> TRUE,
                     from |-> <<clientX, clientY>>, origin |-> <<viewBox.x, viewBox.y>>,
                     to |-> <<clientX, clientY>>]
    /\ UNCHANGED <<chat, observed, view, mounted, hasContext2d, surface, mindMap, expandedNodes, layout,
                   containerSize, viewBox, isLoading, error, isDeleteConfirmOpen,
                   requests, sent, viewOps>>

\* handleMouseUp / handleTouchEnd / handleInteractionEnd
endPanKeepsDragging(op) ==
    /\ lastEvent' = [op |-> op]
    /\ UNCHANGED <<chat, observed, view, mounted, hasContext2d, surface, mindMap, expandedNodes, layout,
                   containerSize, viewBox, isDragging, dragStart, svgRectRef, isLoading,
                   error, isDeleteConfirmOpen, requests, sent, viewOps>>
endPan(op) ==
    /\ isDragging' = FALSE
    /\ svgRectRef' = NoRect
    /\ lastEvent' = [op |-> op]
    /\ UNCHANGED <<chat, observed, view, mounted, hasContext2d, surface, mindMap, expandedNodes, layout,
                   containerSize, viewBox, dragStart, isLoading, error,
                   isDeleteConfirmOpen, requests, sent, viewOps>>

\* an event whose handler returns before it writes anything
ignored(op, touches) ==
    /\ lastEvent' = [op |-> op, touches |-> touches, acted |-> FALSE]
    /\ UNCHANGED <<chat, observed, view, mounted, hasContext2d, surface, mindMap, expandedNodes, layout,
                   containerSize, viewBox, isDragging, dragStart, svgRectRef, isLoading,
                   error, isDeleteConfirmOpen, requests, sent, viewOps>>

\* the last event began or moved the pan, so that nothing happened since
InPanRun(e) == e.op \in {"mouseDown", "touchStart", "mouseMove", "touchMove"} /\ e.acted

\* setDragStart({ x: e.clientX, y: e.clientY })
dragStartKept(start, clientX, clientY) == start
dragStartAfterMove(start, clientX, clientY) == [x |-> clientX, y |-> clientY]

\* handleMouseMove / handleTouchMove / handleInteractionMove past their guards
updatePan(op, touches, clientX, clientY) ==
    /\ viewOps < MaxViewOps
    /\ viewBox' = panned(viewBox, dragStart, clientX, clientY, svgRectRef[1])
    /\ dragStart' = dragStartAfterMove(dragStart, clientX, clientY)
    /\ viewOps' = viewOps + 1
    /\ lastEvent' = [op |-> op, touches |-> touches, acted |-> TRUE,
                     from |-> IF InPanRun(lastEvent) THEN lastEvent.from
                              ELSE <<dragStart.x, dragStart.y>>,
                     origin |-> IF InPanRun(lastEvent) THEN lastEvent.origin
                                ELSE <<viewBox.x, viewBox.y>>,
                     to |-> <<clientX, clientY>>]
    /\ UNCHANGED <<chat, observed, view, mounted, hasContext2d, surface, mindMap, expandedNodes, layout,
                   containerSize, isDragging, svgRectRef, isLoading, error,
                   isDeleteConfirmOpen, requests, sent>>

handleMouseDown(clientX, clientY) ==
    /\ mounted
    /\ PointIn(surface, <<clientX, clientY>>)
    /\ beginPan("mouseDown", 0, clientX, clientY)

handleMouseUp == mounted /\ endPan("mouseUp")
\* onMouseLeave={handleMouseUp}
handleMouseLeave == handleMouseUp

handleMouseMove(clientX, clientY) ==
    /\ mounted
    /\ PointIn(surface, <<clientX, clientY>>)
    /\ IF ~isDragging \/ svgRectRef = NoRect THEN ignored("mouseMove", 0)
       ELSE updatePan("mouseMove", 0, clientX, clientY)

TouchCounts == {1, 2}

\* e.touches.length === 1
anyTouchCount(touches) == TRUE
isSingleTouch(touches) == touches = 1

handleTouchStart(touches, clientX, clientY) ==
    /\ mounted
    /\ PointIn(surface, <<clientX, clientY>>)
    /\ IF ~isSingleTouch(touches) THEN ignored("touchStart", touches)
       ELSE beginPan("touchStart", touches, clientX, clientY)

\* a touchmove is delivered to the element the touch began on, wherever the finger is
handleTouchMove(touches, clientX, clientY) ==
    /\ mounted
    /\ IF ~isDragging \/ svgRectRef = NoRect \/ ~isSingleTouch(touches)
       THEN ignored("touchMove", touches)
       ELSE updatePan("touchMove", touches, clientX, clientY)

handleTouchEnd == mounted /\ endPan("touchEnd")

-----------------------------------------------------------------------------
(* The expand / collapse affordance of a node *)
\* onMouseDown={(e) => e.stopPropagation()}: the svg's onMouseDown does not run
bubblesToSvg == FALSE
mouseDownStopped == TRUE

affordanceMouseDown(id, clientX, clientY) ==
    /\ mounted
    /\ id \in ChevronIds
    /\ PointIn(surface, <<clientX, clientY>>)
    /\ IF mouseDownStopped THEN ignored("affordanceMouseDown", 0)
       ELSE beginPan("affordanceMouseDown", 0, clientX, clientY)

\* handleToggle: e.stopPropagation(); onToggle(node.id)
handleToggle(event, id) ==
    /\ id \in ChevronIds
    /\ toggleBy(event, id, id \in expandedNodes)

\* onClick={handleToggle} for a mouse click
affordanceClick(id) == handleToggle("click", id)

\* onTouchStart={handleToggle}
affordanceTouchStart(id) == handleToggle("touchStart", id)

\* handleTouchEnd / the svg's onTouchEnd: e.preventDefault()
touchEndNotPrevented == FALSE
touchEndPrevented == TRUE

\* the finger that went down on an affordance lifts: the touchend bubbles to the svg,
\* whose handler ends the pan; the browser then dispatches the compatibility click to
\* the affordance (onClick={handleToggle}) unless the touchend's default was prevented,
\* and only when the affordance is still drawn where the finger went down
affordanceTapEnd ==
    /\ mounted
    /\ lastEvent.op = "toggleNode"
    /\ lastEvent.event = "touchStart"
    /\ isDragging' = FALSE
    /\ svgRectRef' = NoRect
    /\ LET clicked == /\ ~touchEndPrevented
                      /\ lastEvent.id \in ChevronIds
                      /\ DrawnAt(layout, lastEvent.id) = lastEvent.at
       IN  /\ expandedNodes' = IF clicked THEN toggled(expandedNodes, lastEvent.id)
                                ELSE expandedNodes
           /\ layout' = IF clicked THEN layoutEffect(mindMap, expandedNodes', containerSize)
                         ELSE layout
           /\ lastEvent' = [op |-> "tapEnd", id |-> lastEvent.id, was |-> lastEvent.was,
                            clicked |-> clicked]
    /\ UNCHANGED <<chat, observed, view, mounted, hasContext2d, surface, mindMap, containerSize, viewBox,
                   dragStart, isLoading, error, isDeleteConfirmOpen, requests, sent,
                   viewOps>>

\* the hosting surface changes size: no handler runs; MindMapPage measures its
\* container at mount only, MindMapComponent's ResizeObserver reports the size later
SurfaceResized(rect) ==
    /\ mounted
    /\ viewOps < MaxViewOps
    /\ sizeOf(rect) # sizeOf(surface)
    /\ surface' = rect
    /\ viewOps' = viewOps + 1
    /\ lastEvent' = [op |-> "resize"]
    /\ UNCHANGED <<chat, observed, view, mounted, hasContext2d, mindMap, expandedNodes, layout,
                   containerSize, viewBox, isDragging, dragStart, svgRectRef, isLoading,
                   error, isDeleteConfirmOpen, requests, sent>>

\* the observer has a size to report that it has not reported yet
reportDue == view = "component" /\ mounted /\ observed # <<sizeOf(surface)>>

\* the ResizeObserver callback of MindMapComponent, then the layout effect
observerReport ==
    /\ reportDue
    /\ observed' = <<sizeOf(surface)>>
    /\ containerSize' = sizeOf(surface)
    /\ viewBox' = resetViewBox(sizeOf(surface))
    /\ layout' = layoutEffect(mindMap, expandedNodes, containerSize')
    /\ lastEvent' = [op |-> "observerReport"]
    /\ UNCHANGED <<chat, view, mounted, hasContext2d, surface, mindMap, expandedNodes,
                   isDragging, dragStart, svgRectRef, isLoading, error,
                   isDeleteConfirmOpen, requests, sent, viewOps>>

-----------------------------------------------------------------------------
(* ChatView of the collection page *)
\* the characters String.prototype.trim removes: WhiteSpace and LineTerminator;
\* a character TLA+ cannot write is named by its code point
WhiteSpace ==
    {" ", "\t", "\n", "\r", "\f", "U+000B", "U+00A0", "U+1680", "U+2000", "U+2001",
     "U+2002", "U+2003", "U+2004", "U+2005", "U+2006", "U+2007", "U+2008", "U+2009",
     "U+200A", "U+2028", "U+2029", "U+202F", "U+205F", "U+3000", "U+FEFF"}
RECURSIVE TrimLeft(_)
TrimLeft(text) ==
    IF text # <<>> /\ text[1] \in WhiteSpace THEN TrimLeft(Tail(text)) ELSE text
RECURSIVE TrimRight(_)
TrimRight(text) ==
    IF text # <<>> /\ text[Len(text)] \in WhiteSpace
    THEN TrimRight(SubSeq(text, 1, Len(text) - 1)) ELSE text
\* input.trim()
Trim(text) == TrimRight(TrimLeft(text))

ChatInputs == {<<>>, <<" ">>, <<"\t", "U+00A0">>, <<"q">>, <<"\n", "q", " ">>}
UserMessage(content, n) == [role |-> "user", content |-> content, n |-> n]
AssistantMessage(content, n) == [role |-> "assistant", content |-> content, n |-> n]
\* what the server keeps of an earlier session
ChatHistories ==
    {<<>>, <<UserMessage(<<"o", "l", "d">>, 0), AssistantMessage(<<"o", "k">>, 0)>>}
REPLY == <<"reply">>

\* what a request can come to: the status and the body of the response, or a rejection
ChatOutcomes ==
    {"ok", "okBadJson", "failed", "failedDetail", "failedBadJson", "rejected",
     "rejectedNonError"}
NO_RESPONSE == "Failed to get a response."
CLEAR_FAILED == "Failed to clear chat session."
\* handleSendMessage: throw new Error(errorData.detail || "Failed to get a response.")
ThrownBySend(outcome) ==
    CASE outcome = "failed" -> ErrorOf(NO_RESPONSE)
      [] outcome = "failedDetail" -> ErrorOf(SERVER_DETAIL)
      [] OTHER -> ThrownByFetch(outcome)
\* handleRefreshChat, any status but 204: response.json().catch(() => ({ detail: ... }));
\* throw new Error(errorData.detail); new Error(undefined).message is ""
ThrownByClear(outcome) ==
    CASE outcome \in {"ok", "failed"} -> ErrorOf("")
      [] outcome = "failedDetail" -> ErrorOf(SERVER_DETAIL)
      [] outcome \in {"okBadJson", "failedBadJson"} -> ErrorOf(CLEAR_FAILED)
      [] OTHER -> ThrownByFetch(outcome)
\* err instanceof Error ? err.message : ''
MessageOf(thrown) == IF thrown.isError THEN thrown.message ELSE ""
\* `Sorry, an error occurred: ${...}`
SORRY(thrown) == <<"Sorry, an error occurred: ", MessageOf(thrown)>>
\* `Sorry, an error occurred while clearing the chat: ${...}`
SORRY_CLEARING(thrown) ==
    <<"Sorry, an error occurred while clearing the chat: ", MessageOf(thrown)>>

\* the fetchChat effect
ChatMount ==
    /\ ~chat.mounted
    /\ chat' = [chat EXCEPT !.mounted = TRUE,
                            !.requests = Append(@, [kind |-> "history", n |-> 0])]
    /\ lastEvent' = [op |-> "chatMount"]
    /\ UNCHANGED mindMapVars

\* onChange={(e) => setInput(e.target.value)}; the field is disabled while sending
setInput(text) ==
    /\ chat.mounted
    /\ ~chat.isSending
    /\ text # chat.input
    /\ chat' = [chat EXCEPT !.input = text]
    /\ lastEvent' = [op |-> "setInput"]
    /\ UNCHANGED mindMapVars

handleSendMessage ==
    /\ chat.mounted
    /\ chat.sent < MaxChatRequests
    /\ IF Trim(chat.input) = <<>> \/ chat.isSending
       THEN /\ chat' = chat
            /\ lastEvent' = [op |-> "sendMessage", acted |-> FALSE]
       ELSE /\ chat' = [chat EXCEPT
                           !.isSending = TRUE,
                           !.isHistoryEmpty = FALSE,
                           !.messages = Append(@, UserMessage(chat.input, chat.sent + 1)),
                           !.input = <<>>,
                           !.requests = Append(@, [kind |-> "chat", n |-> chat.sent + 1]),
                           !.sent = @ + 1]
            /\ lastEvent' = [op |-> "sendMessage", acted |-> TRUE, n |-> chat.sent + 1]
    /\ UNCHANGED mindMapVars

\* the rest of fetchChat once GET chat_session has answered
HistoryResponse(i, outcome, data) ==
    /\ i \in 1..Len(chat.requests)
    /\ chat.requests[i].kind = "history"
    /\ chat' = IF outcome = "ok"
               THEN [chat EXCEPT !.messages = data,
                                 !.isHistoryEmpty = (Len(data) = 0),
                                 !.requests = RemoveAt(@, i)]
               ELSE [chat EXCEPT !.isHistoryEmpty = TRUE,
                                 !.requests = RemoveAt(@, i)]
    /\ lastEvent' = [op |-> "historyResponse", outcome |-> outcome]
    /\ UNCHANGED mindMapVars

\* the rest of handleSendMessage once POST chat has answered
ChatResponse(i, outcome) ==
    /\ i \in 1..Len(chat.requests)
    /\ chat.requests[i].kind = "chat"
    /\ chat' = [chat EXCEPT
                   !.messages = Append(@, AssistantMessage(
                                              IF outcome = "ok" THEN REPLY
                                              ELSE SORRY(ThrownBySend(outcome)),
                                              chat.requests[i].n)),
                   !.isSending = FALSE,
                   !.requests = RemoveAt(@, i)]
    /\ lastEvent' = [op |-> "chatResponse", outcome |-> outcome, n |-> chat.requests[i].n]
    /\ UNCHANGED mindMapVars

\* {!isHistoryEmpty && <Button onClick={() => setIsRefreshConfirmOpen(true)}>}
openRefreshConfirm ==
    /\ chat.mounted
    /\ ~chat.isHistoryEmpty
    /\ ~chat.isRefreshConfirmOpen
    /\ chat' = [chat EXCEPT !.isRefreshConfirmOpen = TRUE]
    /\ lastEvent' = [op |-> "openRefreshConfirm"]
    /\ UNCHANGED mindMapVars

\* onOpenChange={setIsRefreshConfirmOpen} with false: the dialog is dismissed, which
\* nothing guards (only its Cancel button is disabled while isClearingChat)
closeRefreshConfirm ==
    /\ chat.isRefreshConfirmOpen
    /\ chat' = [chat EXCEPT !.isRefreshConfirmOpen = FALSE]
    /\ lastEvent' = [op |-> "closeRefreshConfirm"]
    /\ UNCHANGED mindMapVars

\* the dialog's action button, disabled while isClearingChat
handleRefreshChat ==
    /\ chat.isRefreshConfirmOpen
    /\ ~chat.isClearingChat
    /\ chat.sent < MaxChatRequests
    /\ chat' = [chat EXCEPT !.isClearingChat = TRUE,
                            !.requests = Append(@, [kind |-> "clear", n |-> chat.sent + 1]),
                            !.sent = @ + 1]
    /\ lastEvent' = [op |-> "refreshChat"]
    /\ UNCHANGED mindMapVars

\* the rest of handleRefreshChat once DELETE chat_session has answered
ClearResponse(i, outcome) ==
    /\ i \in 1..Len(chat.requests)
    /\ chat.requests[i].kind = "clear"
    /\ chat' = IF outcome = "noContent"
               THEN [chat EXCEPT !.messages = <<>>,
                                 !.isHistoryEmpty = TRUE,
                                 !.isRefreshConfirmOpen = FALSE,
                                 !.isClearingChat = FALSE,
                                 !.requests = RemoveAt(@, i)]
               ELSE [chat EXCEPT !.messages = Append(@, AssistantMessage(
                                                  SORRY_CLEARING(ThrownByClear(outcome)),
                                                  chat.requests[i].n)),
                                 !.isRefreshConfirmOpen = FALSE,
                                 !.isClearingChat = FALSE,
                                 !.requests = RemoveAt(@, i)]
    /\ lastEvent' = [op |-> "clearResponse", outcome |-> outcome]
    /\ UNCHANGED mindMapVars

\* DELETE chat_session answers 204 when it has cleared the session
ClearOutcomes == ChatOutcomes \cup {"noContent"}
SetInputAny == \E text \in ChatInputs : setInput(text)
HistoryResponseAny ==
    \E i \in 1..Len(chat.requests), outcome \in ChatOutcomes, data \in ChatHistories :
        /\ outcome # "ok" => data = <<>>
        /\ HistoryResponse(i, outcome, data)
ChatResponseAny ==
    \E i \in 1..Len(chat.requests), outcome \in ChatOutcomes : ChatResponse(i, outcome)
ClearResponseAny ==
    \E i \in 1..Len(chat.requests), outcome \in ClearOutcomes : ClearResponse(i, outcome)

NextChat ==
    \/ ChatMount
    \/ SetInputAny
    \/ handleSendMessage
    \/ HistoryResponseAny
    \/ ChatResponseAny
    \/ openRefreshConfirm
    \/ closeRefreshConfirm
    \/ handleRefreshChat
    \/ ClearResponseAny
SpecChat == Init /\ [][NextChat]_vars

-----------------------------------------------------------------------------
(* Specifications of the viewport controller *)
WheelAny == \E d \in Directions, p \in Points : handleWheel(d, p[1], p[2])
ButtonZoomAny == \E d \in Directions : handleButtonZoom(d)
MouseDownAny == \E p \in Points : handleMouseDown(p[1], p[2])
MouseMoveAny == \E p \in Points : handleMouseMove(p[1], p[2])
TouchStartAny == \E n \in TouchCounts, p \in Points : handleTouchStart(n, p[1], p[2])
\* the finger may have left the surface
TouchMovePoints == Points \cup {<<R(1200), R(110)>>}
TouchMoveAny ==
    \E n \in TouchCounts, p \in TouchMovePoints : handleTouchMove(n, p[1], p[2])
ResizeAny == \E rect \in Surfaces : SurfaceResized(rect)

\* mount, resize and zoom
InitZoom == InitWith({"page", "component"}, {FALSE}, Surfaces)
NextZoom == Mount \/ observerReport \/ WheelAny \/ ButtonZoomAny \/ ResizeAny
SpecZoom == InitZoom /\ [][NextZoom]_vars

\* mount, pointer and touch gestures, zoom buttons and resize
PanSurfaces == {Rect(50, 50, 1000, 500), Rect(0, 0, 240, 120)}
InitPan == InitWith({"page", "component"}, {FALSE}, {Rect(50, 50, 1000, 500)})
ResizePan == \E rect \in PanSurfaces : SurfaceResized(rect)
PanZoom == handleButtonZoom("in")
NextPan ==
    \/ Mount
    \/ observerReport
    \/ MouseDownAny
    \/ MouseMoveAny
    \/ handleMouseUp
    \/ TouchStartAny
    \/ TouchMoveAny
    \/ handleTouchEnd
    \/ PanZoom
    \/ ResizePan
SpecPan == InitPan /\ [][NextPan]_vars

-----------------------------------------------------------------------------
(* Specification of the layout engine: a snapshot is loaded, then any id is toggled *)
InitLayout == InitWith({"page", "component"}, BOOLEAN, {Rect(50, 50, 1000, 500)})

LoadLayoutTree == \E t \in LayoutTrees : GetResponse(1, "ok", Snapshot(t))
ToggleAnyId == \E id \in TreeIds \cup {STALE_ID} : toggleNode(id)

NextLayout == Mount \/ observerReport \/ LoadLayoutTree \/ ToggleAnyId
SpecLayout == InitLayout /\ [][NextLayout]_vars

(* Specification of identifier assignment: a snapshot is loaded, chevrons are clicked *)
InitIds == InitWith({"page", "component"}, {FALSE}, {Rect(50, 50, 1000, 500)})

LoadIdTree == \E t \in IdTrees : GetResponse(1, "ok", Snapshot(t))
ToggleChevron == \E id \in ChevronIds : toggleNode(id)

NextIds == Mount \/ observerReport \/ LoadIdTree \/ ToggleChevron
SpecIds == InitIds /\ [][NextIds]_vars

(* Specification of the view's life cycle: requests, responses and chevron clicks *)
\* a response without a body to read is tried once, with any body
\* one outcome for every branch the handlers take on a response
BranchOutcomes == {"ok", "notFound", "failed", "wrongType"}
GetResponseAny ==
    \E i \in 1..Len(requests), outcome \in BranchOutcomes, data \in LifecycleSnapshots :
        /\ GetBranch(requests[i], outcome) # "data" => data = NoRootsSnapshot
        /\ GetResponse(i, outcome, data)
DeleteResponseAny ==
    \E i \in 1..Len(requests), outcome \in {"ok", "failed"} : DeleteResponse(i, outcome)

Next ==
    \/ Mount
    \/ observerReport
    \/ refetch
    \/ regenerateMindMap
    \/ openDeleteConfirm
    \/ closeDeleteConfirm
    \/ handleDelete
    \/ GetResponseAny
    \/ DeleteResponseAny
    \/ ToggleChevron
Spec == Init /\ [][Next]_vars

\* the life cycle when the effects run after construction and every request in flight
\* is eventually answered
LiveSnapshots == {Snapshot(TreeXY), NoRootsSnapshot}
LiveGetResponse ==
    \E i \in 1..Len(requests), outcome \in BranchOutcomes, data \in LiveSnapshots :
        /\ GetBranch(requests[i], outcome) # "data" => data = NoRootsSnapshot
        /\ GetResponse(i, outcome, data)
NextLive ==
    \/ Mount
    \/ observerReport
    \/ refetch
    \/ regenerateMindMap
    \/ openDeleteConfirm
    \/ closeDeleteConfirm
    \/ handleDelete
    \/ LiveGetResponse
    \/ DeleteResponseAny
Responsive ==
    /\ WF_vars(Mount)
    /\ WF_vars(LiveGetResponse)
    /\ WF_vars(DeleteResponseAny)
SpecLive == Init /\ [][NextLive]_vars /\ Responsive

\* the life cycle while collectionId / apiBaseUrl stay as they are: the fetch effect
\* runs at mount only
\* every outcome of a request, with every body and every rejection
CommandGetResponse ==
    \E i \in 1..Len(requests), outcome \in GetOutcomes, data \in LifecycleSnapshots :
        /\ GetBranch(requests[i], outcome) # "data" => data = NoRootsSnapshot
        /\ GetResponse(i, outcome, data)
CommandDeleteResponse ==
    \E i \in 1..Len(requests), outcome \in DeleteOutcomes : DeleteResponse(i, outcome)
NextCommands ==
    \/ Mount
    \/ observerReport
    \/ regenerateMindMap
    \/ openDeleteConfirm
    \/ closeDeleteConfirm
    \/ handleDelete
    \/ CommandGetResponse
    \/ CommandDeleteResponse
    \/ ToggleChevron
SpecCommands == Init /\ [][NextCommands]_vars

(* Specification of gestures on a drawn tree: affordances and panning *)
GestureTrees == {TreeABCD}
LoadGestureTree == \E t \in GestureTrees : GetResponse(1, "ok", Snapshot(t))
AffordanceMouseDownAny ==
    \E id \in ChevronIds, p \in Points : affordanceMouseDown(id, p[1], p[2])
AffordanceClickAny == \E id \in ChevronIds : affordanceClick(id)
AffordanceTouchStartAny == \E id \in ChevronIds : affordanceTouchStart(id)
SurfaceMouseDown == \E p \in Points : handleMouseDown(p[1], p[2])
SurfaceMouseMove == \E p \in Points : handleMouseMove(p[1], p[2])
SurfaceTouchStart == \E p \in Points : handleTouchStart(1, p[1], p[2])
SurfaceTouchMove == \E p \in Points : handleTouchMove(1, p[1], p[2])

NextGestures ==
    \/ Mount
    \/ observerReport
    \/ LoadGestureTree
    \/ AffordanceMouseDownAny
    \/ AffordanceClickAny
    \/ AffordanceTouchStartAny
    \/ affordanceTapEnd
    \/ SurfaceMouseDown
    \/ SurfaceMouseMove
    \/ handleMouseUp
    \/ SurfaceTouchStart
    \/ SurfaceTouchMove
    \/ handleTouchEnd
SpecGestures == InitPan /\ [][NextGestures]_vars

(* Specification of a whole session: commands, responses, toggles and the viewport *)
SESSION_POINT == <<R(150), R(100)>>
SessionWheel ==
    viewOps < MaxSessionOps /\ handleWheel("out", SESSION_POINT[1], SESSION_POINT[2])
SessionButtonZoom == viewOps < MaxSessionOps /\ handleButtonZoom("in")
SessionMouseDown == handleMouseDown(SESSION_POINT[1], SESSION_POINT[2])
SESSION_MOVE_TO == <<R(100), R(100)>>
SessionMouseMove ==
    /\ isDragging => viewOps < MaxSessionOps
    /\ handleMouseMove(SESSION_MOVE_TO[1], SESSION_MOVE_TO[2])
SessionResize == viewOps < MaxSessionOps /\ SurfaceResized(Rect(0, 0, 240, 120))
SessionGetResponse ==
    \E i \in 1..Len(requests), outcome \in {"ok", "failed"} :
        GetResponse(i, outcome, IF outcome = "ok" THEN Snapshot(TreeXY)
                                ELSE NoRootsSnapshot)
NextSession ==
    \/ Mount
    \/ observerReport
    \/ regenerateMindMap
    \/ openDeleteConfirm
    \/ handleDelete
    \/ SessionGetResponse
    \/ DeleteResponseAny
    \/ ToggleChevron
    \/ SessionWheel
    \/ SessionButtonZoom
    \/ SessionMouseDown
    \/ SessionMouseMove
    \/ handleMouseUp
    \/ SessionResize
SpecSession == Init /\ [][NextSession]_vars

-----------------------------------------------------------------------------
(* Reading a layout *)
NodeIndex(id) == CHOOSE i \in 1..Len(layout.nodes) : layout.nodes[i].id = id
NodeOf(id) == layout.nodes[NodeIndex(id)]
LayoutIds == {layout.nodes[i].id : i \in 1..Len(layout.nodes)}
RECURSIVE SumSeq(_)
SumSeq(ys) == IF ys = <<>> THEN R(0) ELSE RAdd(ys[1], SumSeq(Tail(ys)))
ChildYs(n) == [k \in 1..Len(n.children) |-> NodeOf(n.children[k]).y]
SomeNegativeY == \E i \in 1..Len(layout.nodes) : RLt(layout.nodes[i].y, R(0))
LEAF_PITCH == R(NODE_HEIGHT + VERTICAL_SPACING)

\* C1: every laid-out node with at least one rendered child has y equal to the
\* arithmetic mean of its rendered children's y, in the final (corrected) layout.
C1_Centering ==
    \A i \in 1..Len(layout.nodes) :
        LET n == layout.nodes[i]
        IN  Len(n.children) > 0 =>
                RMul(n.y, R(Len(n.children))) = SumSeq(ChildYs(n))

\* a node with three rendered children in a layout that was shifted, after a toggle
C1_Witness ==
    /\ lastEvent.op = "toggleNode"
    /\ SomeNegativeY
    /\ \E i \in 1..Len(layout.nodes) :
          LET n == layout.nodes[i]
          IN  /\ Len(n.children) = 3
              /\ n.y = ChildYs(n)[2]
              /\ RSub(ChildYs(n)[3], ChildYs(n)[1]) = RMul(R(2), LEAF_PITCH)

\* C2: after calculateLayout the root's y is exactly 0.
C2_RootAnchored ==
    Len(layout.nodes) > 0 =>
        /\ layout.nodes[1].parent = NoParent
        /\ layout.nodes[1].y = R(0)

\* the root was centred on children, so its uncorrected y was not 0
C2_Witness ==
    /\ Len(layout.nodes) >= 4
    /\ layout.nodes[1].y = R(0)
    /\ SomeNegativeY

\* the ids visible by the rule "the root, and every node all of whose ancestors are expanded"
RECURSIVE VisibleIds(_, _)
VisibleIds(node, expanded) ==
    {node.id} \cup
    (IF node.id \in expanded
     THEN UNION {VisibleIds(node.children[i], expanded) : i \in 1..Len(node.children)}
     ELSE {})

\* C3: a layout node has rendered children only if its id is expanded and its source
\* node has children; the visible nodes are the root and the nodes all of whose
\* ancestors are expanded; expanded ids that match no node change nothing.
C3_ExpansionFilter ==
    hasFirstRoot(mindMap) =>
        /\ \A i \in 1..Len(layout.nodes) :
              LET n == layout.nodes[i]
              IN  Len(n.children) > 0 => (n.id \in expandedNodes /\ n.sourceChildren > 0)
        /\ LayoutIds = VisibleIds(rootWithId(mindMap), expandedNodes)
        /\ Len(layout.nodes) = Cardinality(LayoutIds)
        /\ layout = layoutEffect(mindMap, expandedNodes \cap TreeIds, containerSize)

\* a stale id and a leaf's id are expanded, and a node with source children is collapsed
C3_Witness ==
    /\ STALE_ID \in expandedNodes
    /\ Len(layout.nodes) >= 3
    /\ \E i \in 1..Len(layout.nodes) :
          layout.nodes[i].sourceChildren = 0 /\ layout.nodes[i].id \in expandedNodes
    /\ \E i \in 1..Len(layout.nodes) :
          layout.nodes[i].sourceChildren > 0 /\ layout.nodes[i].children = <<>>

ABCDLoaded == mindMap = <<Snapshot(TreeABCD)>>
ID_A == <<"r", "o", "o", "t", "-", "A">>
ID_B == ID_A \o <<"-", "0", "-", "B">>
ID_C == ID_A \o <<"-", "1", "-", "C">>
ToggledAFromInitial ==
    /\ lastEvent.op = "toggleNode"
    /\ lastEvent.id = ID_A
    /\ expandedNodes = {}

\* C4 as claimed: with only the root expanded the layout of A[B, C[D]] has one node and
\* no edge, and toggling A then gives three nodes and two edges.
C4_AsClaimed ==
    ABCDLoaded =>
        /\ expandedNodes = {ID_A} => (Len(layout.nodes) = 1 /\ Len(layout.links) = 0)
        /\ ToggledAFromInitial => (Len(layout.nodes) = 3 /\ Len(layout.links) = 2)

\* C4 amended: for A[B, C[D]] the loaded snapshot has expansion set {A} and shows A, B, C
\* with two edges, B and C one leaf pitch (70) apart; toggling A then leaves A alone
\* with no edge.
C4_Scenario ==
    ABCDLoaded =>
        /\ lastEvent.op = "getResponse" => expandedNodes = {ID_A}
        /\ expandedNodes = {ID_A} =>
              /\ LayoutIds = {ID_A, ID_B, ID_C}
              /\ Len(layout.nodes) = 3
              /\ Len(layout.links) = 2
              /\ RAbs(RSub(NodeOf(ID_B).y, NodeOf(ID_C).y)) = LEAF_PITCH
        /\ ToggledAFromInitial =>
              /\ LayoutIds = {ID_A}
              /\ Len(layout.nodes) = 1
              /\ Len(layout.links) = 0

C4_Witness == ABCDLoaded /\ ToggledAFromInitial /\ Len(layout.nodes) = 1

\* C5: addIds gives pairwise distinct ids to all nodes of a snapshot.
C5_DistinctIds ==
    hasFirstRoot(mindMap) =>
        /\ Cardinality(IdsOf(rootWithId(mindMap))) = CountOf(mindMap[1].roots[1])
        /\ Cardinality(LayoutIds) = Len(layout.nodes)

\* two visible siblings whose labels differ only in a character that sanitizes to '-'
C5_Witness ==
    /\ hasFirstRoot(mindMap)
    /\ Len(layout.nodes) = 3
    /\ layout.nodes[1].children = <<layout.nodes[2].id, layout.nodes[3].id>>
    /\ layout.nodes[2].name = <<"a", " ", "b">>
    /\ layout.nodes[3].name = <<"a", "-", "b">>
    /\ sanitize(layout.nodes[2].name) = sanitize(layout.nodes[3].name)
    /\ layout.nodes[2].id # layout.nodes[3].id

\* C6: toggleNode(id) flips the membership of id and of nothing else; applying it
\* again gives back the set it started from.
C6_ToggleFlips ==
    [][lastEvent'.op = "toggleNode" =>
         LET id == lastEvent'.id
         IN  /\ (id \in expandedNodes') # (id \in expandedNodes)
             /\ expandedNodes' \ {id} = expandedNodes \ {id}
             /\ toggled(expandedNodes', id) = expandedNodes]_vars

\* an id that was added by one toggle has been removed by the next
C6_Witness ==
    /\ lastEvent.op = "toggleNode"
    /\ lastEvent.id = STALE_ID
    /\ STALE_ID \notin expandedNodes

-----------------------------------------------------------------------------
(* Reading the viewport *)
WidthInRange(vb) == RLe(R(MIN_ZOOM_WIDTH), vb.w) /\ RLe(vb.w, R(MAX_ZOOM_WIDTH))
ZoomOps == {"wheel", "buttonZoom"}

\* the scene point shown at pixel (mouseX, mouseY) of a surface svgRect under rectangle vb
SceneAt(vb, mouseX, mouseY, svgRect) ==
    <<RAdd(vb.x, RMul(RDiv(mouseX, svgRect.width), vb.w)),
      RAdd(vb.y, RMul(RDiv(mouseY, svgRect.height), vb.h))>>

\* C8: in every reachable state the viewBox width lies in [MIN_ZOOM_WIDTH, MAX_ZOOM_WIDTH].
C8_WidthAlwaysInRange == WidthInRange(viewBox)

\* C9: after every zoom-in step the width is at least MIN_ZOOM_WIDTH, after every
\* zoom-out step at most MAX_ZOOM_WIDTH, whatever the width was before.
C9_ZoomClamped ==
    [][lastEvent'.op \in ZoomOps =>
         /\ lastEvent'.dir = "in" => RLe(R(MIN_ZOOM_WIDTH), viewBox'.w)
         /\ lastEvent'.dir = "out" => RLe(viewBox'.w, R(MAX_ZOOM_WIDTH))]_vars

\* a second consecutive zoom-in arrived at the lower bound
C9_Witness ==
    /\ lastEvent.op \in ZoomOps
    /\ lastEvent.dir = "in"
    /\ viewOps >= 2
    /\ viewBox.w = R(MIN_ZOOM_WIDTH)
    /\ containerSize.width = R(240)

\* C10: a wheel zoom at a pixel keeps the scene point under that pixel, and at the
\* clamp bound of its direction it leaves the whole rectangle as it was.
C10_ZoomFocus ==
    [][\A d \in Directions, p \in Points :
         handleWheel(d, p[1], p[2]) =>
            LET mouseX == RSub(p[1], surface.left)
                mouseY == RSub(p[2], surface.top)
            IN  /\ SceneAt(viewBox', mouseX, mouseY, surface)
                       = SceneAt(viewBox, mouseX, mouseY, surface)
                /\ (d = "in" /\ viewBox.w = R(MIN_ZOOM_WIDTH)) => viewBox' = viewBox
                /\ (d = "out" /\ viewBox.w = R(MAX_ZOOM_WIDTH)) => viewBox' = viewBox]_vars

\* a wheel zoom moved the rectangle's origin and size, away from the surface's centre
C10_Witness ==
    /\ lastEvent.op = "wheel"
    /\ viewBox.w # containerSize.width
    /\ WidthInRange(viewBox)
    /\ RAdd(viewBox.x, RDiv(viewBox.w, R(2))) # R(0)

-----------------------------------------------------------------------------
(* Reading the life cycle *)

\* the step handled a successful GET whose snapshot has a first root
SnapshotLoaded ==
    /\ lastEvent'.op = "getResponse"
    /\ lastEvent'.branch = "data"
    /\ hasFirstRoot(mindMap')

\* the step handled a response that leaves no tree to show and empties the set:
\* a 404 to MindMapPage's plain fetch, or a snapshot without a first root
EmptiedByResponse ==
    /\ lastEvent'.op = "getResponse"
    /\ \/ lastEvent'.branch = "notFound" /\ view = "page"
       \/ lastEvent'.branch = "data" /\ ~hasFirstRoot(mindMap')
    /\ expandedNodes' = {}

\* C7 as claimed: a loaded snapshot with a first root sets the expansion set to
\* {rootId}; any other change of the expansion set is made by toggleNode.
C7_AsClaimed ==
    [][/\ SnapshotLoaded => expandedNodes' = {rootWithId(mindMap').id}
       /\ (expandedNodes' # expandedNodes /\ ~SnapshotLoaded) =>
              lastEvent'.op = "toggleNode"]_vars

\* C7 amended: a loaded snapshot with a first root sets the expansion set to {rootId};
\* any other change of the expansion set is made by toggleNode, or empties the set when
\* MindMapPage's plain fetch answers 404 or a snapshot arrives without a first root.
C7_ExpansionLifecycle ==
    [][/\ SnapshotLoaded => expandedNodes' = {rootWithId(mindMap').id}
       /\ (expandedNodes' # expandedNodes /\ ~SnapshotLoaded) =>
              (lastEvent'.op = "toggleNode" \/ EmptiedByResponse)]_vars

\* a regenerated snapshot replaced one on which two nodes had been toggled
C7_Witness ==
    /\ lastEvent.op = "getResponse"
    /\ lastEvent.kind = "regenerate"
    /\ lastEvent.branch = "data"
    /\ hasFirstRoot(mindMap)
    /\ expandedNodes = {rootWithId(mindMap).id}
    /\ lastEvent.expandedBefore >= 2

-----------------------------------------------------------------------------
(* Reading gestures *)
PanMoves == {"mouseMove", "touchMove"}
TouchOps == {"touchStart", "touchMove"}

\* C11: a pan update to pixel p1, after the pan was begun (or last updated) at pixel p0,
\* moves the viewBox origin by -(p1 - p0) times viewBox size over surface pixel size on
\* each axis, the surface being measured when the pan began, and keeps width and height.
C11_PanTranslation ==
    [][(lastEvent'.op \in PanMoves /\ lastEvent'.acted) =>
          LET rect == svgRectRef[1]
              dx == RMul(RSub(dragStart'.x, dragStart.x), RDiv(viewBox.w, rect.width))
              dy == RMul(RSub(dragStart'.y, dragStart.y), RDiv(viewBox.h, rect.height))
          IN  /\ viewBox'.x = RSub(viewBox.x, dx)
              /\ viewBox'.y = RSub(viewBox.y, dy)
              /\ viewBox'.w = viewBox.w
              /\ viewBox'.h = viewBox.h]_vars

\* begun at (100, 100), moved to (150, 100), width 1000 over a 1000 px wide surface:
\* x went from -500 to -550 and y stayed at -250
C11_Witness ==
    /\ lastEvent.op = "mouseMove"
    /\ lastEvent.acted
    /\ viewOps = 1
    /\ surface = Rect(50, 50, 1000, 500)
    /\ dragStart = [x |-> R(150), y |-> R(100)]
    /\ viewBox = [x |-> R(-550), y |-> R(-250), w |-> R(1000), h |-> R(500)]

\* C15: a touchstart or touchmove with more than one contact begins no pan and leaves
\* the viewBox and the drag state as they were, also while a one-finger pan is going on.
C15_MultiTouchIgnored ==
    [][(lastEvent'.op \in TouchOps /\ lastEvent'.touches > 1) =>
          /\ viewBox' = viewBox
          /\ isDragging' = isDragging
          /\ dragStart' = dragStart
          /\ svgRectRef' = svgRectRef]_vars

\* a two-finger touchmove arrived during a one-finger pan that had already moved
C15_Witness ==
    /\ lastEvent.op = "touchMove"
    /\ lastEvent.touches = 2
    /\ isDragging
    /\ svgRectRef # NoRect
    /\ viewOps >= 1
    /\ viewBox.x # RDiv(RNeg(viewBox.w), R(2))

-----------------------------------------------------------------------------
(* Reading the viewport against its surface *)
CentreOf(vb) == <<RAdd(vb.x, RDiv(vb.w, R(2))), RAdd(vb.y, RDiv(vb.h, R(2)))>>

\* C12: once mounted, and once the observer has reported the size of the surface as it
\* is now, the viewBox height equals its width times the pixel height over the pixel
\* width of the hosting surface.
C12_AspectRatio ==
    (mounted /\ ~reportDue) =>
        viewBox.h = RMul(viewBox.w, RDiv(surface.height, surface.width))

\* C13: a zoom button multiplies the width by 5/4 (out) or 4/5 (in), clamped to
\* [MIN_ZOOM_WIDTH, MAX_ZOOM_WIDTH], scales the height by the ratio the width
\* really changed by, and keeps the centre of the rectangle.
C13_ButtonZoom ==
    [][lastEvent'.op = "buttonZoom" =>
          LET factor == IF lastEvent'.dir = "out" THEN <<5, 4>> ELSE <<4, 5>>
              wanted == RMul(viewBox.w, factor)
          IN  /\ viewBox'.w = RMaxOf(R(MIN_ZOOM_WIDTH), RMinOf(R(MAX_ZOOM_WIDTH), wanted))
              /\ viewBox'.h = RMul(viewBox.h, RDiv(viewBox'.w, viewBox.w))
              /\ CentreOf(viewBox') = CentreOf(viewBox)]_vars

\* the zoom-in button pressed once on the 1000 x 500 rectangle set at mount
C13_Witness ==
    /\ lastEvent.op = "buttonZoom"
    /\ lastEvent.dir = "in"
    /\ viewOps = 1
    /\ viewBox = [x |-> R(-400), y |-> R(-200), w |-> R(800), h |-> R(400)]

\* C14: whenever the surface changes to W x H after mount, in either view, the viewBox
\* becomes -W/2 -H/2 W H and the layout is the one computed for container width W:
\* in the component when the observer reports the change, in the page, where nothing
\* reports it later, with the change itself.
C14_ResetOnResize ==
    [][(\/ lastEvent'.op = "resize" /\ view = "page"
        \/ lastEvent'.op = "observerReport") =>
          /\ viewBox' = resetViewBox(sizeOf(surface'))
          /\ containerSize' = sizeOf(surface')
          /\ layout' = layoutEffect(mindMap', expandedNodes', sizeOf(surface'))]_vars

-----------------------------------------------------------------------------
(* Reading the edges *)
LinksInto(id) == {k \in 1..Len(layout.links) : layout.links[k].target = id}

\* C16: the layout holds exactly one edge per laid-out node with a parent, from that
\* parent to the node, hence one edge fewer than nodes; the edge starts at
\* (parent.x + parent.width / 2 + CHEVRON_OFFSET, parent.y) and ends at
\* (node.x - node.width / 2, node.y), in the final coordinates of both nodes.
C16_Edges ==
    /\ Len(layout.nodes) > 0 => Len(layout.links) = Len(layout.nodes) - 1
    /\ Len(layout.nodes) = 0 => Len(layout.links) = 0
    /\ \A i \in 1..Len(layout.nodes) :
          LET n == layout.nodes[i]
          IN  IF n.parent = NoParent THEN LinksInto(n.id) = {}
              ELSE /\ Cardinality(LinksInto(n.id)) = 1
                   /\ n.parent \in LayoutIds
                   /\ LET l == layout.links[CHOOSE k \in LinksInto(n.id) : TRUE]
                          parent == NodeOf(n.parent)
                      IN  /\ l.source = parent.id
                          /\ l.sx = RAdd(RAdd(parent.x, RDiv(parent.width, R(2))),
                                         R(CHEVRON_OFFSET))
                          /\ l.sy = parent.y
                          /\ l.tx = RSub(n.x, RDiv(n.width, R(2)))
                          /\ l.ty = n.y

\* three edges over two levels in a layout that was shifted, one of them to a node
\* wider than the minimum, after a toggle
C16_Witness ==
    /\ lastEvent.op = "toggleNode"
    /\ SomeNegativeY
    /\ Len(layout.links) = 3
    /\ \E i \in 1..Len(layout.nodes) : layout.nodes[i].depth = 2
    /\ \E k \in 1..Len(layout.links) :
          /\ layout.links[k].sy # layout.links[k].ty
          /\ RLt(R(MIN_NODE_WIDTH), NodeOf(layout.links[k].target).width)

-----------------------------------------------------------------------------
(* Reading responses *)
GetHandled == lastEvent'.op = "getResponse"
DeleteHandled == lastEvent'.op = "deleteResponse"

\* C17: a 404 answer to a fetch or a regenerate leaves snapshot null, no error message
\* and the busy flag false; any other non-success answer leaves an error message.
C17_NotFoundIsNoMap ==
    [][GetHandled =>
          /\ StatusOf(lastEvent'.outcome) = "notFound" =>
                 /\ mindMap' = NoMap
                 /\ isLoading' = FALSE
                 /\ error = NoError => error' = NoError
          /\ StatusOf(lastEvent'.outcome) \in {"failed", "rejected"} => error' # NoError]_vars

\* C18: when a fetch or a regenerate fails, an error message is set, the snapshot is the
\* one that was on show when the request was dispatched, and the layout, the expansion
\* set and the viewBox are as they were.
C18_FailureLeavesState ==
    [][(GetHandled /\ lastEvent'.branch = "throw") =>
          /\ error' # NoError
          /\ mindMap' = requests[lastEvent'.index].had
          /\ layout' = layoutEffect(requests[lastEvent'.index].had, expandedNodes,
                                   containerSize)
          /\ expandedNodes' = expandedNodes
          /\ viewBox' = viewBox]_vars

\* C19: once a DELETE has succeeded the view ends with no snapshot and an empty layout,
\* whether the follow-up fetch answers 404 or fails; a failed DELETE leaves snapshot and layout as
\* they were and sets an error message.
C19_DeleteEmpties ==
    [][/\ (DeleteHandled /\ lastEvent'.outcome = "ok" /\ view = "component") =>
              (mindMap' = NoMap /\ layout' = EmptyLayout)
       /\ (GetHandled /\ lastEvent'.chained /\ lastEvent'.branch # "data") =>
              (mindMap' = NoMap /\ layout' = EmptyLayout)
       /\ (DeleteHandled /\ lastEvent'.outcome # "ok") =>
              (mindMap' = mindMap /\ layout' = layout /\ error' # NoError)]_vars

\* C20 as claimed: while a request is outstanding the busy flag is true, and at most
\* one request is in flight.
C20_SingleFlight ==
    /\ Len(requests) <= 1
    /\ requests # <<>> => isLoading

RegenerateDispatched == lastEvent'.op = "regenerate"
DeleteDispatched == lastEvent'.op = "handleDelete" /\ lastEvent'.sent

\* C20 amended: regenerate and delete are dispatched only while the busy flag is false,
\* every dispatch sets the flag, and only a re-run of the fetch effect can end the
\* regime in which at most one request is in flight and the flag is true meanwhile.
C20_BusyFlag ==
    [][/\ (RegenerateDispatched \/ DeleteDispatched) => (~isLoading /\ isLoading')
       /\ Len(requests') > Len(requests) => isLoading'
       /\ (C20_SingleFlight /\ lastEvent'.op # "refetch") => C20_SingleFlight']_vars

\* a regenerate dispatched after the mount fetch was answered: the only request in
\* flight, with the busy flag set
C20_Witness ==
    /\ lastEvent.op = "regenerate"
    /\ sent = 2
    /\ Len(requests) = 1
    /\ requests[1].kind = "regenerate"
    /\ isLoading

-----------------------------------------------------------------------------
(* Reading gestures on the affordance *)
ByAffordance(e) ==
    \/ e.op = "affordanceMouseDown"
    \/ e.op = "toggleNode" /\ e.event \in {"click", "touchStart"}

\* C21: a mouse-down, click or touch-start on a node's affordance leaves isDragging, the
\* drag start point, the cached rectangle and the viewBox as they were, and a pointer move
\* that follows it while no pan is in progress does not move the viewBox.
C21_AffordanceNeverPans ==
    [][/\ ByAffordance(lastEvent') =>
              /\ isDragging' = isDragging
              /\ dragStart' = dragStart
              /\ svgRectRef' = svgRectRef
              /\ viewBox' = viewBox
       /\ (ByAffordance(lastEvent) /\ ~isDragging /\ lastEvent'.op \in PanMoves) =>
              (viewBox' = viewBox /\ ~lastEvent'.acted)]_vars

\* a mouse-down on an affordance, after an earlier pan had moved the viewBox and ended
C21_Witness ==
    /\ lastEvent.op = "affordanceMouseDown"
    /\ ~lastEvent.acted
    /\ ~isDragging
    /\ viewOps >= 1
    /\ layout.nodes # <<>>

\* C22: a gesture on a node's affordance, completed by a mouse click or by the end of
\* a tap, has changed the node's membership in the expansion set exactly once.
C22_OneToggle ==
    [][(\/ lastEvent'.op = "toggleNode" /\ lastEvent'.event = "click"
        \/ lastEvent'.op = "tapEnd") =>
          ((lastEvent'.id \in expandedNodes') # lastEvent'.was)]_vars

\* a tap on the affordance of the expanded root has ended: the root is collapsed, and
\* no click followed the touchend
C22_Witness ==
    /\ lastEvent.op = "tapEnd"
    /\ lastEvent.was
    /\ ~lastEvent.clicked
    /\ lastEvent.id \notin expandedNodes
    /\ Len(layout.nodes) = 1

-----------------------------------------------------------------------------
(* Reading identifiers *)
\* a label with every character that is not an ASCII letter or digit replaced by '-'
DashedLabel(label) ==
    [k \in 1..Len(label) |->
        IF label[k] \in Letters \cup DigitChars THEN label[k] ELSE "-"]
DASH == <<"-">>

\* the drawn nodes carry the ids addIds gave them; an expanded node draws all of its
\* children, in source order
RootHasClaimedId ==
    \A i \in 1..Len(layout.nodes) :
        layout.nodes[i].depth = 0 =>
            layout.nodes[i].id = ROOT_PREFIX \o DASH \o DashedLabel(layout.nodes[i].name)

\* C23 as claimed: the root's id is 'root-' + sanitize(label) and every child's id is
\* parentId + '-' + sanitize(label) + '-' + index.
C23_AsClaimed ==
    /\ RootHasClaimedId
    /\ \A i \in 1..Len(layout.nodes) :
          \A k \in 1..Len(layout.nodes[i].children) :
              LET child == NodeOf(layout.nodes[i].children[k])
              IN  child.id = layout.nodes[i].id \o DASH \o DashedLabel(child.name)
                                 \o DASH \o ToDecimal(k - 1)

\* C23 amended: the root's id is 'root-' + sanitize(label) and every child's id is
\* parentId + '-' + index + '-' + sanitize(label), index counting siblings from 0.
C23_IdFormat ==
    /\ RootHasClaimedId
    /\ \A i \in 1..Len(layout.nodes) :
          \A k \in 1..Len(layout.nodes[i].children) :
              LET child == NodeOf(layout.nodes[i].children[k])
              IN  child.id = layout.nodes[i].id \o DASH \o ToDecimal(k - 1)
                                 \o DASH \o DashedLabel(child.name)

\* a drawn second child whose label holds a digit and a character that is replaced
C23_Witness ==
    /\ Len(layout.nodes) = 3
    /\ Len(layout.nodes[1].children) = 2
    /\ NodeOf(layout.nodes[1].children[2]).name = <<"0", "-", "a">>
    /\ layout.nodes[1].name = <<"a", " ", "b">>

-----------------------------------------------------------------------------
(* Reading overlapping requests *)
\* C24: whichever of the tree requests in flight is answered, a successful response
\* becomes the displayed snapshot, with the expansion set reset to its {rootId}, and any
\* handled response clears the busy flag, also while another request is outstanding.
C24_LastWriteWins ==
    [][GetHandled =>
          /\ lastEvent'.branch = "data" =>
                 /\ mindMap' = <<lastEvent'.data>>
                 /\ hasFirstRoot(mindMap') => expandedNodes' = {rootWithId(mindMap').id}
          /\ isLoading' = FALSE]_vars

\* the request dispatched second was answered first, with a tree that replaced the one
\* shown; the first request is still outstanding and the busy flag is cleared
C24_Witness ==
    /\ lastEvent.op = "getResponse"
    /\ lastEvent.branch = "data"
    /\ lastEvent.index = 2
    /\ Len(requests) = 1
    /\ requests[1].had # NoMap
    /\ mindMap # requests[1].had
    /\ hasFirstRoot(mindMap)
    /\ ~isLoading

-----------------------------------------------------------------------------
(* Reading the owners of the viewBox *)
ResetOps == {"mount", "observerReport"}
EndOps == {"mouseUp", "touchEnd"}

\* C25: the viewBox changes only in a wheel zoom, a button zoom, a pan move made while a
\* drag is active, or the mount / resize reset; a pointer move right after the pan was
\* ended, like every other event, leaves it unchanged.
C25_ViewBoxOwners ==
    [][/\ viewBox' # viewBox =>
              \/ lastEvent'.op \in ZoomOps \cup ResetOps
              \/ lastEvent'.op \in PanMoves /\ isDragging /\ svgRectRef # NoRect
       /\ (lastEvent.op \in EndOps /\ lastEvent'.op \in PanMoves) => viewBox' = viewBox
       /\ lastEvent'.op \in {"toggleNode", "getResponse", "deleteResponse", "regenerate",
                              "handleDelete", "openDeleteConfirm"} => viewBox' = viewBox]_vars

\* a snapshot arrives while the viewBox has been zoomed or panned away from its reset
C25_Witness ==
    /\ lastEvent.op = "getResponse"
    /\ lastEvent.branch = "data"
    /\ viewOps >= 1
    /\ viewBox # resetViewBox(containerSize)
    /\ layout.nodes # <<>>

-----------------------------------------------------------------------------
(* Reading a toggle's effect on the layout *)
IdsIn(lay) == {lay.nodes[i].id : i \in 1..Len(lay.nodes)}
XsOf(lay, id) == {p[1] : p \in DrawnAt(lay, id)}
ID_D == ID_C \o <<"-", "0", "-", "D">>

\* the step toggles a node of the snapshot on show, in an unchanged container
TogglesTree ==
    /\ lastEvent'.op = "toggleNode"
    /\ hasFirstRoot(mindMap)
    /\ mindMap' = mindMap
    /\ containerSize' = containerSize

\* C26: a toggle does not change the x of a node that is drawn before and after it; in
\* A[B, C[D]] with only A expanded, expanding C adds exactly node D and exactly one
\* edge, and leaves A's x and B's position as they were.
C26_ToggleKeepsX ==
    [][TogglesTree =>
          /\ \A id \in IdsIn(layout) \cap IdsIn(layout') : XsOf(layout', id) = XsOf(layout, id)
          /\ (ABCDLoaded /\ expandedNodes = {ID_A} /\ lastEvent'.id = ID_C) =>
                 /\ IdsIn(layout) = {ID_A, ID_B, ID_C}
                 /\ IdsIn(layout') = {ID_A, ID_B, ID_C, ID_D}
                 /\ Len(layout'.nodes) = Len(layout.nodes) + 1
                 /\ Len(layout'.links) = Len(layout.links) + 1
                 /\ XsOf(layout', ID_A) = XsOf(layout, ID_A)
                 /\ DrawnAt(layout', ID_B) = DrawnAt(layout, ID_B)]_vars

\* C has just been expanded in A[B, C[D]]: four nodes and three edges are drawn
C26_Witness ==
    /\ ABCDLoaded
    /\ lastEvent.op = "toggleNode"
    /\ lastEvent.id = ID_C
    /\ expandedNodes = {ID_A, ID_C}
    /\ Len(layout.nodes) = 4
    /\ Len(layout.links) = 3

-----------------------------------------------------------------------------
(* Reading the placement of node boxes *)
\* the drawn leaves, in the order positionNodes pushed them (depth first, source order)
LeafIndexes == {i \in 1..Len(layout.nodes) : layout.nodes[i].children = <<>>}
NextLeaf(i) == {j \in LeafIndexes : j > i /\ \A k \in LeafIndexes : k > i => j <= k}

RECURSIVE AncestorsOf(_)
AncestorsOf(id) ==
    LET parent == NodeOf(id).parent
    IN  IF parent = NoParent THEN {} ELSE {parent} \cup AncestorsOf(parent)
Unrelated(a, b) == a.id # b.id /\ a.id \notin AncestorsOf(b.id) /\ b.id \notin AncestorsOf(a.id)

Left(n) == RSub(n.x, RDiv(n.width, R(2)))
Right(n) == RAdd(n.x, RDiv(n.width, R(2)))
Top(n) == RSub(n.y, RDiv(R(n.height), R(2)))
Bottom(n) == RAdd(n.y, RDiv(R(n.height), R(2)))
BoxesOverlap(a, b) ==
    /\ RLt(Left(a), Right(b)) /\ RLt(Left(b), Right(a))
    /\ RLt(Top(a), Bottom(b)) /\ RLt(Top(b), Bottom(a))

\* C27: consecutive drawn leaves are exactly one leaf pitch (70) apart, with y increasing
\* in depth-first order; two drawn nodes neither of which is an ancestor of the other are
\* at least 70 apart in y; a drawn child's left edge is exactly HORIZONTAL_SPACING to the
\* right of its parent's right edge; no two node boxes overlap.
C27_NoOverlap ==
    /\ \A i \in LeafIndexes : \A j \in NextLeaf(i) :
          layout.nodes[j].y = RAdd(layout.nodes[i].y, LEAF_PITCH)
    /\ \A i, j \in 1..Len(layout.nodes) :
          Unrelated(layout.nodes[i], layout.nodes[j]) =>
              RLe(LEAF_PITCH, RAbs(RSub(layout.nodes[i].y, layout.nodes[j].y)))
    /\ \A i \in 1..Len(layout.nodes) :
          layout.nodes[i].parent # NoParent =>
              Left(layout.nodes[i]) =
                  RAdd(Right(NodeOf(layout.nodes[i].parent)), R(HORIZONTAL_SPACING))
    /\ \A i, j \in 1..Len(layout.nodes) :
          i # j => ~BoxesOverlap(layout.nodes[i], layout.nodes[j])

\* four drawn nodes on three levels, with two leaves and a node between them in y
C27_Witness ==
    /\ Len(layout.nodes) = 4
    /\ Cardinality(LeafIndexes) = 2
    /\ \E i \in 1..4 : layout.nodes[i].depth = 2
    /\ \E i \in 1..4 : layout.nodes[i].y # R(0) /\ layout.nodes[i].children # <<>>

-----------------------------------------------------------------------------
(* Reading a whole pan *)
\* C28: after a run of pan events begun at pixel p0 with viewBox origin o0, a move to
\* pixel pn leaves the origin at o0 - (pn - p0) x (viewBox size / surface size cached at
\* the begin), whatever the points in between, so that moving back to p0 restores the
\* rectangle; width and height stay, and ending the pan changes nothing.
C28_PathIndependent ==
    [][/\ (lastEvent'.op \in PanMoves /\ lastEvent'.acted) =>
              LET e == lastEvent'
                  rect == svgRectRef[1]
                  dx == RMul(RSub(e.to[1], e.from[1]), RDiv(viewBox.w, rect.width))
                  dy == RMul(RSub(e.to[2], e.from[2]), RDiv(viewBox.h, rect.height))
              IN  /\ viewBox' = [x |-> RSub(e.origin[1], dx), y |-> RSub(e.origin[2], dy),
                                  w |-> viewBox.w, h |-> viewBox.h]
                  /\ e.to = e.from =>
                         (viewBox'.x = e.origin[1] /\ viewBox'.y = e.origin[2])
       /\ lastEvent'.op \in EndOps => viewBox' = viewBox]_vars

\* a touch begun at (100, 100) with origin (-500, -250) moved twice and is now at
\* (1200, 110), off the surface: the origin is (-1600, -260)
C28_Witness ==
    /\ lastEvent.op = "touchMove"
    /\ lastEvent.acted
    /\ viewOps = 2
    /\ lastEvent.from = <<R(100), R(100)>>
    /\ lastEvent.to = <<R(1200), R(110)>>
    /\ lastEvent.origin = <<R(-500), R(-250)>>
    /\ viewBox = [x |-> R(-1600), y |-> R(-260), w |-> R(1000), h |-> R(500)]

-----------------------------------------------------------------------------
(* Reading progress *)
\* a DELETE, or the fetch handleDelete awaits after it, is in flight
DeleteUnderWay ==
    \E i \in 1..Len(requests) : requests[i].kind = "delete" \/ requests[i].chained

\* C29: whenever the busy flag is set it is eventually cleared, and while a delete is
\* under way the confirmation dialog is eventually closed, provided every request in
\* flight is eventually answered (successfully, with 404 or with an error).
C29_BusyCleared ==
    /\ isLoading ~> ~isLoading
    /\ DeleteUnderWay ~> ~isDeleteConfirmOpen

\* a DELETE has just failed: the busy flag is cleared and the dialog closed
C29_Witness ==
    /\ lastEvent.op = "deleteResponse"
    /\ lastEvent.outcome = "failed"
    /\ ~isLoading
    /\ ~isDeleteConfirmOpen
    /\ requests = <<>>
    /\ error = DELETE_FAILED

-----------------------------------------------------------------------------
(* Reading the chat transcript *)
UserMessagesOf(messages) ==
    {messages[k] : k \in {j \in 1..Len(messages) : messages[j].role = "user"}}
ClearedByRefresh == lastEvent'.op = "clearResponse" /\ lastEvent'.outcome = "noContent"

\* C30: a user message appended by handleSendMessage stays in the transcript unless a
\* refresh succeeds, whenever the history fetch completes; when its request completes
\* the transcript gains exactly one assistant message, at its end; a transcript that
\* is not empty becomes empty only by a successful refresh.
C30_SentMessageStays ==
    [][/\ ~ClearedByRefresh => UserMessagesOf(chat.messages) \subseteq UserMessagesOf(chat'.messages)
       /\ lastEvent'.op = "chatResponse" =>
              /\ Len(chat'.messages) = Len(chat.messages) + 1
              /\ chat'.messages[Len(chat'.messages)].role = "assistant"
              /\ chat'.messages[Len(chat'.messages)].n = lastEvent'.n
       /\ (chat.messages # <<>> /\ chat'.messages = <<>>) => ClearedByRefresh]_vars
====
